---- MODULE Spec2Model ----
(***************************************************************************)
(* Verification model of the action validation / execution core of the    *)
(* GSR-bench LangGraph agent:                                              *)
(*   - ActionValidationExecutionTool  (tools/action_validation_execution_  *)
(*     tool.py): command parsing, scene-graph constraint validation, the   *)
(*     publish / wait-for-trigger / settle / diff execution protocol;      *)
(*   - SceneGraphManager (utils/scene_graph_manager.py): the store;        *)
(*   - LangGraphAgent._call_validate_execute (core/agent_reflect.py): the  *)
(*     repetition guard in front of the tool.                              *)
(*                                                                         *)
(* Data representation.  A scene graph is a record                        *)
(*     [nodes |-> set of <<name, tag>>, edges |-> sequence of edges,       *)
(*      ts |-> timestamp, nodes_null |-> BOOLEAN]                          *)
(* where tag is "open", "closed" or "plain" (the node string carries no    *)
(* state suffix) and an edge [o, r, t] stands for the string "o(r)t"       *)
(* (r = "on" / "in") or for the table marker "0=T" / "0=F" (r = "=").      *)
(* nodes_null marks a message whose "nodes" value is JSON null, which the  *)
(* bus callback lets through (ros_manager.py:197 tests the key only).      *)
(* Edge strings carry bare object names (state suffixes live on nodes,     *)
(* ros_manager.py:179) and a node name occurs at most once in nodes.       *)
(* The name tests of the code ('cube' in name, 'drawer' in name,           *)
(* endswith('_box'), ...) are modelled by membership in the name classes   *)
(* below, which partition the object names used in the model.              *)
(***************************************************************************)
EXTENDS Integers, Sequences, FiniteSets, TLC

\* ------------------------------------------------------------------------
\* Object names
\* ------------------------------------------------------------------------
Table == "table"
DrawerLow == "short_cabinet/drawer_low"
DrawerMiddle == "short_cabinet/drawer_middle"
DrawerHigh == "short_cabinet/drawer_high"
Drawers == {DrawerLow, DrawerMiddle, DrawerHigh}
FillerCubes ==
    {"cube_f1", "cube_f2", "cube_f3", "cube_f4", "cube_f5", "cube_f6", "cube_f7"}
CubeNames == {"red_cube1", "red_cube2", "red_cube3", "blue_cube"} \cup FillerCubes
MugNames == {"white_mug"}
BoxNames == {"red_box", "lid_box"}
Ghost == "ghost_item"

\* No value: Python None
None == "None"

\* ------------------------------------------------------------------------
\* Generic helpers
\* ------------------------------------------------------------------------
SeqToSet(s) == {s[i] : i \in DOMAIN s}

Edge(o, r, t) == [o |-> o, r |-> r, t |-> t]

\* Index of the first edge of es that is an "(r)" edge satisfying the
\* object/target test, 0 when there is none (Python: for edge in edges ... break)
FirstEdgeFrom(es, obj, rels) ==
    LET I == {i \in DOMAIN es : es[i].o = obj /\ es[i].r \in rels}
    IN  IF I = {} THEN 0 ELSE CHOOSE i \in I : \A j \in I : i <= j

\* Objects X with an edge X(on)target, in edge order
BlockersOf(es, target) ==
    LET sel == SelectSeq(es, LAMBDA e : e.r = "on" /\ e.t = target)
    IN  IF sel = <<>> THEN <<>> ELSE [i \in 1..Len(sel) |-> sel[i].o]

\* ------------------------------------------------------------------------
\* Name classification (the string tests of the validator)
\* ------------------------------------------------------------------------
IsCube(name) == name \in CubeNames

IsMug(name) == name \in MugNames

IsDrawerName(name) == name \in Drawers

IsLidBoxName(name) == name = "lid_box"

\* Variant that forgets the "_box" suffix test
IsContainerWithoutBoxSuffix(name) ==
    \/ IsDrawerName(name)
    \/ IsLidBoxName(name)

IsContainer(name) ==
    \/ IsDrawerName(name)
    \/ IsLidBoxName(name)
    \/ name \in BoxNames

\* ------------------------------------------------------------------------
\* Command parsing inside the tool.  A command text is the record
\* [verb, obj, prep, tgt]; verb "bad" is a text none of the patterns match.
\* ------------------------------------------------------------------------
NoAction == [action_type |-> None]

NormalizeRelation(prep) ==
    IF prep = "into" THEN "in"
    ELSE IF prep \in {"to", "upon"} THEN "on"
    ELSE prep

ParseFlexibleActionCommand(cmd) ==
    IF cmd.verb \in {"open", "close"}
    THEN [action_type |-> cmd.verb, target_object |-> cmd.tgt, relation |-> None]
    ELSE IF cmd.verb \in {"move", "put"}
              /\ cmd.prep \in {"in", "into", "to", "on", "upon"}
    THEN [action_type |-> "move", source_object |-> cmd.obj,
          target_location |-> cmd.tgt, relation |-> NormalizeRelation(cmd.prep)]
    ELSE NoAction

\* ------------------------------------------------------------------------
\* Scene analysis
\* ------------------------------------------------------------------------
\* all_objects of _analyze_scene_graph: every name of an (on)/(in) edge and
\* every node, state suffix removed, "table" left out; iterating over null
\* nodes raises inside the analysis, which then returns its empty default
AllObjects(sg) ==
    IF sg.nodes_null THEN {}
    ELSE
    ({sg.edges[i].o : i \in {j \in DOMAIN sg.edges : sg.edges[j].r \in {"on", "in"}}}
       \cup {sg.edges[i].t : i \in {j \in DOMAIN sg.edges : sg.edges[j].r \in {"on", "in"}}}
       \cup {n[1] : n \in sg.nodes})
    \ {Table}

\* table_status: "T" unless a "0=<s>" marker edge sets it (the last one wins)
TableStatus(sg) ==
    LET I == {i \in DOMAIN sg.edges : sg.edges[i].r = "=" /\ sg.edges[i].o = "0"}
    IN  IF I = {} THEN "T"
        ELSE sg.edges[CHOOSE i \in I : \A j \in I : j <= i].t

\* _get_object_state: the state suffix of the node named object_name; the
\* fallback scan of the edges finds nothing in bare-name edges
GetObjectState(object_name, sg) ==
    IF <<object_name, "open">> \in sg.nodes THEN "open"
    ELSE IF <<object_name, "closed">> \in sg.nodes THEN "closed"
    ELSE None

Check(ok, kind, who) == [ok |-> ok, kind |-> kind, who |-> who]

\* _check_drawer_constraints
CheckDrawerConstraints(drawer_name, sg) ==
    IF GetObjectState(drawer_name, sg) # "open"
    THEN Check(FALSE, "ClosedContainer", drawer_name)
    ELSE IF drawer_name = DrawerLow
    THEN IF GetObjectState(DrawerMiddle, sg) = "open"
         THEN Check(FALSE, "DrawerOrderViolation", DrawerMiddle)
         ELSE IF GetObjectState(DrawerHigh, sg) = "open"
         THEN Check(FALSE, "DrawerOrderViolation", DrawerHigh)
         ELSE Check(TRUE, "ok", None)
    ELSE IF drawer_name = DrawerMiddle
    THEN IF GetObjectState(DrawerHigh, sg) = "open"
         THEN Check(FALSE, "DrawerOrderViolation", DrawerHigh)
         ELSE Check(TRUE, "ok", None)
    ELSE Check(TRUE, "ok", None)

\* _validate_cube_source_accessibility
ValidateCubeSourceAccessibility(cube_name, sg) ==
    LET i == FirstEdgeFrom(sg.edges, cube_name, {"in", "on"})
    IN  IF i = 0 THEN Check(FALSE, "LocationUnknown", None)
        ELSE LET loc == sg.edges[i].t
                 blockers == BlockersOf(sg.edges, loc)
             IN  IF loc = Table THEN Check(TRUE, "ok", None)
                 ELSE IF blockers # <<>>
                 THEN Check(FALSE, "Blocked", blockers[1])
                 ELSE Check(TRUE, "ok", None)

\* Variant of _can_move_object that ignores what sits on top of the object
CanMoveObjectIgnoringTop(object_name, sg) ==
    LET i == FirstEdgeFrom(sg.edges, object_name, {"in"})
    IN  IF i = 0 THEN Check(TRUE, "ok", None)
        ELSE IF GetObjectState(sg.edges[i].t, sg) = "closed"
        THEN Check(FALSE, "ClosedContainer", sg.edges[i].t)
        ELSE Check(TRUE, "ok", None)

\* _can_move_object
CanMoveObject(object_name, sg) ==
    LET above == BlockersOf(sg.edges, object_name)
        i == FirstEdgeFrom(sg.edges, object_name, {"in"})
    IN  IF above # <<>> THEN Check(FALSE, "Blocked", above[1])
        ELSE IF i = 0 THEN Check(TRUE, "ok", None)
        ELSE LET object_container == sg.edges[i].t
                 drawer_check == CheckDrawerConstraints(object_container, sg)
                 onContainer == BlockersOf(sg.edges, object_container)
             IN  IF GetObjectState(object_container, sg) = "closed"
                 THEN Check(FALSE, "ClosedContainer", object_container)
                 ELSE IF IsDrawerName(object_container) /\ ~drawer_check.ok
                 THEN drawer_check
                 ELSE IF onContainer # <<>>
                 THEN Check(FALSE, "Blocked", onContainer[1])
                 ELSE Check(TRUE, "ok", None)

\* _is_valid_target_location
IsValidTargetLocation(target_location) ==
    ~IsCube(target_location) /\ ~IsMug(target_location)

\* _can_access_target
CanAccessTarget(target_name, sg) ==
    LET blocking == BlockersOf(sg.edges, target_name)
        drawer_check == CheckDrawerConstraints(target_name, sg)
    IN  IF blocking # <<>> THEN Check(FALSE, "Blocked", blocking[1])
        ELSE IF (IsLidBoxName(target_name) \/ IsDrawerName(target_name))
                  /\ GetObjectState(target_name, sg) = "closed"
        THEN Check(FALSE, "ClosedContainer", target_name)
        ELSE IF IsDrawerName(target_name) /\ ~drawer_check.ok
        THEN drawer_check
        ELSE Check(TRUE, "ok", None)

\* The threshold of _can_place_cube_in_box (its messages say "/3")
CubeCapacityLimit == 10

CubesIn(target_box, sg) ==
    Len(SelectSeq(sg.edges,
                  LAMBDA e : e.r = "in" /\ e.t = target_box /\ IsCube(e.o)))

\* _can_place_cube_in_box
CanPlaceCubeInBox(cube_name, target_box, sg) ==
    LET i == FirstEdgeFrom(sg.edges, cube_name, {"in", "on"})
        cube_in_container == i # 0 /\ sg.edges[i].r = "in"
        srcBlockers == IF i = 0 THEN <<>> ELSE BlockersOf(sg.edges, sg.edges[i].t)
        tgtBlockers == BlockersOf(sg.edges, target_box)
    IN  IF cube_in_container /\ srcBlockers # <<>>
        THEN Check(FALSE, "Blocked", srcBlockers[1])
        ELSE IF tgtBlockers # <<>>
        THEN Check(FALSE, "Blocked", tgtBlockers[1])
        ELSE IF CubesIn(target_box, sg) >= CubeCapacityLimit
        THEN Check(FALSE, "CapacityExceeded", target_box)
        ELSE Check(TRUE, "ok", None)

\* Variant of _check_action_already_completed that never reports completion
NeverAlreadyCompleted(source_object, target_location, relation, sg) == FALSE

\* _check_action_already_completed
CheckActionAlreadyCompleted(source_object, target_location, relation, sg) ==
    \/ Edge(source_object, relation, target_location) \in SeqToSet(sg.edges)
    \/ /\ target_location = Table
       /\ Edge(source_object, "on", Table) \in SeqToSet(sg.edges)

\* ------------------------------------------------------------------------
\* Validation results.  step is the return statement of
\* _validate_action_command that produced the result: 0 parse, 1 existence,
\* 2 source movability, 3 container nesting, 4 target type, 5 target
\* accessibility (table: table full), 6 cube placement, 7 already completed,
\* 8 valid, 9 exception caught by the validator.  kind classifies
\* error_reason, who is the object it names.
\* ------------------------------------------------------------------------
\* Variant that files the source and the target flag under each other's key
MoveDetailsSwapped(e, m, a, v) ==
    [objects_exist |-> e, source_movable |-> a,
     target_accessible |-> m, action_valid |-> v]

MoveDetails(e, m, a, v) ==
    [objects_exist |-> e, source_movable |-> m,
     target_accessible |-> a, action_valid |-> v]

Result(valid, step, kind, who, details) ==
    [is_valid |-> valid, step |-> step, kind |-> kind, who |-> who,
     validation_details |-> details]

OpenCloseDetails(e, s, v) ==
    [object_exists |-> e, state_valid |-> s, action_valid |-> v]

\* Variant without the already-open / already-closed rejections
ValidateOpenCloseAnyState(pa, sg) ==
    LET target_object == pa.target_object
        inNodes == \E n \in sg.nodes : n[1] = target_object
        inEdges == \E i \in DOMAIN sg.edges :
                       sg.edges[i].r \in {"on", "in"}
                       /\ target_object \in {sg.edges[i].o, sg.edges[i].t}
        current_state == IF inNodes THEN GetObjectState(target_object, sg) ELSE None
    IN  IF sg.nodes_null
        THEN Result(FALSE, 9, "ValidationException", None,
                    OpenCloseDetails(FALSE, FALSE, FALSE))
        ELSE IF ~inNodes /\ ~inEdges
        THEN Result(FALSE, 1, "NotFound", target_object,
                    OpenCloseDetails(FALSE, FALSE, FALSE))
        ELSE IF current_state = None
        THEN Result(FALSE, 2, "NoStateInfo", target_object,
                    OpenCloseDetails(TRUE, FALSE, FALSE))
        ELSE Result(TRUE, 8, "ok", None, OpenCloseDetails(TRUE, TRUE, TRUE))

\* _validate_open_close_action
ValidateOpenCloseAction(pa, sg) ==
    LET target_object == pa.target_object
        inNodes == \E n \in sg.nodes : n[1] = target_object
        inEdges == \E i \in DOMAIN sg.edges :
                       sg.edges[i].r \in {"on", "in"}
                       /\ target_object \in {sg.edges[i].o, sg.edges[i].t}
        current_state == IF inNodes THEN GetObjectState(target_object, sg) ELSE None
    IN  IF sg.nodes_null
        THEN Result(FALSE, 9, "ValidationException", None,
                    OpenCloseDetails(FALSE, FALSE, FALSE))
        ELSE IF ~inNodes /\ ~inEdges
        THEN Result(FALSE, 1, "NotFound", target_object,
                    OpenCloseDetails(FALSE, FALSE, FALSE))
        ELSE IF current_state = None
        THEN Result(FALSE, 2, "NoStateInfo", target_object,
                    OpenCloseDetails(TRUE, FALSE, FALSE))
        ELSE IF pa.action_type = "open" /\ current_state = "open"
        THEN Result(FALSE, 3, "AlreadyOpen", target_object,
                    OpenCloseDetails(TRUE, FALSE, FALSE))
        ELSE IF pa.action_type = "close" /\ current_state = "closed"
        THEN Result(FALSE, 3, "AlreadyClosed", target_object,
                    OpenCloseDetails(TRUE, FALSE, FALSE))
        ELSE Result(TRUE, 8, "ok", None, OpenCloseDetails(TRUE, TRUE, TRUE))

\* Variant of the move branch that looks at the target before the source
ValidateMoveTargetFirst(pa, sg) ==
    LET src == pa.source_object
        tgt == pa.target_location
        all_objects == AllObjects(sg)
        cubeSrc == ValidateCubeSourceAccessibility(src, sg)
        canMove == CanMoveObject(src, sg)
        canAccess == CanAccessTarget(tgt, sg)
        canPlace == CanPlaceCubeInBox(src, tgt, sg)
    IN  IF src \notin all_objects
        THEN Result(FALSE, 1, "NotFound", src, MoveDetails(FALSE, FALSE, FALSE, FALSE))
        ELSE IF tgt # Table /\ tgt \notin all_objects
        THEN Result(FALSE, 1, "NotFound", tgt, MoveDetails(FALSE, FALSE, FALSE, FALSE))
        ELSE IF tgt # Table /\ ~canAccess.ok
        THEN Result(FALSE, 5, canAccess.kind, canAccess.who,
                    MoveDetails(TRUE, TRUE, FALSE, FALSE))
        ELSE IF IsCube(src) /\ ~cubeSrc.ok
        THEN Result(FALSE, 2, cubeSrc.kind, cubeSrc.who,
                    MoveDetails(TRUE, FALSE, FALSE, FALSE))
        ELSE IF ~canMove.ok
        THEN Result(FALSE, 2, canMove.kind, canMove.who,
                    MoveDetails(TRUE, FALSE, FALSE, FALSE))
        ELSE IF tgt # Table /\ IsContainer(src) /\ IsContainer(tgt)
        THEN Result(FALSE, 3, "ContainerNesting", tgt,
                    MoveDetails(TRUE, TRUE, FALSE, FALSE))
        ELSE IF tgt # Table /\ ~IsValidTargetLocation(tgt)
        THEN Result(FALSE, 4, "InvalidTargetType", tgt,
                    MoveDetails(TRUE, TRUE, FALSE, FALSE))
        ELSE IF tgt # Table /\ IsCube(src) /\ ~canPlace.ok
        THEN Result(FALSE, 6, canPlace.kind, canPlace.who,
                    MoveDetails(TRUE, TRUE, FALSE, FALSE))
        ELSE IF tgt = Table /\ TableStatus(sg) = "F"
        THEN Result(FALSE, 5, "TableFull", Table,
                    MoveDetails(TRUE, TRUE, FALSE, FALSE))
        ELSE IF CheckActionAlreadyCompleted(src, tgt, pa.relation, sg)
        THEN Result(FALSE, 7, "AlreadySatisfied", src,
                    MoveDetails(TRUE, TRUE, TRUE, FALSE))
        ELSE Result(TRUE, 8, "ok", None, MoveDetails(TRUE, TRUE, TRUE, TRUE))

\* The move branch of _validate_action_command (lines 263-395)
ValidateMove(pa, sg) ==
    LET src == pa.source_object
        tgt == pa.target_location
        all_objects == AllObjects(sg)
        cubeSrc == ValidateCubeSourceAccessibility(src, sg)
        canMove == CanMoveObject(src, sg)
        canAccess == CanAccessTarget(tgt, sg)
        canPlace == CanPlaceCubeInBox(src, tgt, sg)
    IN  IF src \notin all_objects
        THEN Result(FALSE, 1, "NotFound", src, MoveDetails(FALSE, FALSE, FALSE, FALSE))
        ELSE IF tgt # Table /\ tgt \notin all_objects
        THEN Result(FALSE, 1, "NotFound", tgt, MoveDetails(FALSE, FALSE, FALSE, FALSE))
        ELSE IF IsCube(src) /\ ~cubeSrc.ok
        THEN Result(FALSE, 2, cubeSrc.kind, cubeSrc.who,
                    MoveDetails(TRUE, FALSE, FALSE, FALSE))
        ELSE IF ~canMove.ok
        THEN Result(FALSE, 2, canMove.kind, canMove.who,
                    MoveDetails(TRUE, FALSE, FALSE, FALSE))
        ELSE IF tgt # Table /\ IsContainer(src) /\ IsContainer(tgt)
        THEN Result(FALSE, 3, "ContainerNesting", tgt,
                    MoveDetails(TRUE, TRUE, FALSE, FALSE))
        ELSE IF tgt # Table /\ ~IsValidTargetLocation(tgt)
        THEN Result(FALSE, 4, "InvalidTargetType", tgt,
                    MoveDetails(TRUE, TRUE, FALSE, FALSE))
        ELSE IF tgt # Table /\ ~canAccess.ok
        THEN Result(FALSE, 5, canAccess.kind, canAccess.who,
                    MoveDetails(TRUE, TRUE, FALSE, FALSE))
        ELSE IF tgt # Table /\ IsCube(src) /\ ~canPlace.ok
        THEN Result(FALSE, 6, canPlace.kind, canPlace.who,
                    MoveDetails(TRUE, TRUE, FALSE, FALSE))
        ELSE IF tgt = Table /\ TableStatus(sg) = "F"
        THEN Result(FALSE, 5, "TableFull", Table,
                    MoveDetails(TRUE, TRUE, FALSE, FALSE))
        ELSE IF CheckActionAlreadyCompleted(src, tgt, pa.relation, sg)
        THEN Result(FALSE, 7, "AlreadySatisfied", src,
                    MoveDetails(TRUE, TRUE, TRUE, FALSE))
        ELSE Result(TRUE, 8, "ok", None, MoveDetails(TRUE, TRUE, TRUE, TRUE))

\* _validate_action_command
ValidateActionCommand(cmd, sg) ==
    LET pa == ParseFlexibleActionCommand(cmd)
    IN  IF pa = NoAction
        THEN Result(FALSE, 0, "ParseError", None,
                    MoveDetails(FALSE, FALSE, FALSE, FALSE))
        ELSE IF pa.action_type \in {"open", "close"}
        THEN ValidateOpenCloseAction(pa, sg)
        ELSE ValidateMove(pa, sg)

\* ------------------------------------------------------------------------
\* Input domain of the validator: scene graphs and command texts
\* ------------------------------------------------------------------------
Cmd(verb, obj, prep, tgt) == [verb |-> verb, obj |-> obj, prep |-> prep, tgt |-> tgt]

NoPlace == <<>>

Place(r, t) == <<r, t>>

\* The edge of one object's placement (no edge when it has none)
PlacementEdge(obj, pl) ==
    IF pl = NoPlace THEN <<>> ELSE <<Edge(obj, pl[1], pl[2])>>

Plain(names) == {<<n, "plain">> : n \in names}

Scene(nodes, edges) ==
    [nodes |-> nodes, edges |-> edges, ts |-> 1, nodes_null |-> FALSE]

\* A message {"nodes": null, "edges": [...]}
NullNodesScene(edges) ==
    [nodes |-> {}, edges |-> edges, ts |-> 1, nodes_null |-> TRUE]

\* Cubes, a box, a lidded box and a mug on a table
GeneralScenes ==
    { Scene(Plain({Table, "red_cube1", "blue_cube", "red_box", "white_mug"})
               \cup {<<"lid_box", lid>>},
            PlacementEdge("red_cube1", p1) \o PlacementEdge("blue_cube", p2)
               \o PlacementEdge("red_box", p3)
               \o <<Edge("white_mug", "on", Table)>>) :
        p1 \in {NoPlace, Place("on", Table), Place("in", "red_box"),
                Place("in", "lid_box"), Place("on", "red_box")},
        p2 \in {NoPlace, Place("on", Table), Place("on", "red_box"),
                Place("on", "lid_box"), Place("in", "red_box"),
                Place("on", "red_cube1")},
        p3 \in {NoPlace, Place("on", Table), Place("on", "lid_box")},
        lid \in {"plain", "open", "closed"} }

\* The three-drawer cabinet; a drawer node may carry no state suffix
DrawerScenes ==
    { Scene(Plain({Table, "red_cube1", "white_mug"})
               \cup {<<DrawerLow, lo>>, <<DrawerMiddle, mi>>, <<DrawerHigh, hi>>},
            PlacementEdge("red_cube1", p1)
               \o <<Edge("white_mug", "on", Table)>>) :
        p1 \in {Place("on", Table), Place("in", DrawerLow),
                Place("in", DrawerMiddle), Place("in", DrawerHigh)},
        lo \in {"plain", "open", "closed"},
        mi \in {"plain", "open", "closed"},
        hi \in {"plain", "open", "closed"} }

\* Up to three cubes in red_box
CapacityScenes ==
    { Scene(Plain({Table, "red_cube1", "red_cube2", "red_cube3", "blue_cube",
                   "red_box"}) \cup {<<"lid_box", "open">>},
            PlacementEdge("red_cube1", p1) \o PlacementEdge("red_cube2", p2)
               \o PlacementEdge("red_cube3", p3) \o PlacementEdge("blue_cube", p4)) :
        p1 \in {Place("on", Table), Place("in", "red_box")},
        p2 \in {Place("on", Table), Place("in", "red_box")},
        p3 \in {Place("on", Table), Place("in", "red_box")},
        p4 \in {Place("on", Table), Place("in", "lid_box")} }

FillerSeq ==
    <<"cube_f1", "cube_f2", "cube_f3", "cube_f4", "cube_f5", "cube_f6", "cube_f7">>

\* Three to ten cubes in red_box, blue_cube on the table
FullBoxScenes ==
    { Scene(Plain({Table, "red_cube1", "red_cube2", "red_cube3", "blue_cube",
                   "red_box"} \cup {FillerSeq[i] : i \in 1..n}),
            <<Edge("red_cube1", "in", "red_box"), Edge("red_cube2", "in", "red_box"),
              Edge("red_cube3", "in", "red_box")>>
               \o [i \in 1..n |-> Edge(FillerSeq[i], "in", "red_box")]
               \o <<Edge("blue_cube", "on", Table)>>) :
        n \in 0..Len(FillerSeq) }

\* The round-trip example of the specification, with a table marker edge
MarkerScenes ==
    { Scene(Plain({Table, "red_box", "red_cube1"}),
            PlacementEdge("red_cube1", p1) \o <<Edge("0", "=", m)>>) :
        p1 \in {Place("on", Table), Place("in", "red_box")},
        m \in {"T", "F"} }

MalformedScenes ==
    { NullNodesScene(<<Edge("red_cube1", "on", Table), Edge("red_box", "on", Table)>>),
      NullNodesScene(<<Edge("blue_cube", "on", "red_box"),
                       Edge("red_box", "on", Table)>>) }

\* Snapshots in which red_cube1 has two placement edges at once
ContradictoryScenes ==
    { Scene(Plain({Table, "red_cube1", "blue_cube", "red_box"}) \cup {<<"lid_box", "open">>},
            <<Edge("red_cube1", "on", Table), Edge("red_cube1", "in", c),
              Edge("red_box", "on", Table)>> \o PlacementEdge("blue_cube", p2)) :
        c \in {"red_box", "lid_box"},
        p2 \in {Place("on", Table), Place("in", "red_box")} }

ValidatorScenes ==
    GeneralScenes \cup DrawerScenes \cup CapacityScenes \cup FullBoxScenes
       \cup MarkerScenes \cup MalformedScenes \cup ContradictoryScenes

MoveCommands ==
    { Cmd("move", o, p, t) :
        o \in {"red_cube1", "blue_cube", "red_box", "lid_box", "white_mug", Ghost},
        p \in {"in", "on", "to", "into"},
        t \in {Table, "red_box", "lid_box", "red_cube1", "white_mug",
               DrawerLow, DrawerMiddle, DrawerHigh, Ghost} }

OpenCloseCommands ==
    { Cmd(v, None, None, t) :
        v \in {"open", "close"},
        t \in {"lid_box", "red_box", "red_cube1", DrawerLow, DrawerHigh, Ghost} }

BadCommand == Cmd("bad", None, None, None)

ValidatorCommands == MoveCommands \cup OpenCloseCommands \cup {BadCommand}

\* ------------------------------------------------------------------------
\* Execution protocol: limits, bus messages, commands, responses
\* ------------------------------------------------------------------------
\* Iterations of the wait loop before max_wait_time has elapsed
MaxWait == 2

\* Tool invocations of one task before the next task resets the count;
\* submissions the guard rejects invoke no tool and are not capped
MaxCalls == 6

\* self.max_consecutive_failures
MaxConsecutiveFailures == 5

\* The repetition threshold of _call_validate_execute
MaxSameToolCount == 5

\* The empty dict the store is constructed with
NoSG == [nodes |-> {}, edges |-> <<>>, ts |-> 0, nodes_null |-> FALSE]

OnTableScene ==
    Scene(Plain({Table, "red_box", "red_cube1"}),
          <<Edge("red_box", "on", Table), Edge("red_cube1", "on", Table)>>)

InBoxScene ==
    Scene(Plain({Table, "red_box", "red_cube1"}),
          <<Edge("red_box", "on", Table), Edge("red_cube1", "in", "red_box")>>)

\* Scene-graph messages the bus can deliver
BusScenes ==
    {OnTableScene, InBoxScene, NullNodesScene(<<Edge("red_cube1", "in", "red_box")>>)}

\* No tool arguments remembered: Python None
NoCall == Cmd(None, None, None, None)

\* A query that is empty after strip()
EmptyQuery == Cmd("", None, None, None)

\* Tool arguments the planner can produce
AgentCommands ==
    { Cmd("move", "red_cube1", "in", "red_box"),
      Cmd("move", "red_cube1", "on", Table),
      Cmd("move", Ghost, "on", Table),
      EmptyQuery }

NoChanges == [edges_added |-> {}, edges_removed |-> {}, has_changes |-> FALSE]

Response(status, reason, sg, changes) ==
    [status |-> status, reason |-> reason, scene_graph |-> sg,
     change_analysis |-> changes]

NoResponse == Response("none", None, NoSG, NoChanges)

\* Variant of _analyze_scene_changes with the two differences exchanged
AnalyzeSceneChangesSwapped(initial_scene_graph, final_scene_graph) ==
    LET initial_edges == SeqToSet(initial_scene_graph.edges)
        final_edges == SeqToSet(final_scene_graph.edges)
    IN  [edges_added |-> initial_edges \ final_edges,
         edges_removed |-> final_edges \ initial_edges,
         has_changes |-> initial_edges # final_edges]

\* _analyze_scene_changes
AnalyzeSceneChanges(initial_scene_graph, final_scene_graph) ==
    LET initial_edges == SeqToSet(initial_scene_graph.edges)
        final_edges == SeqToSet(final_scene_graph.edges)
        added_edges == final_edges \ initial_edges
        removed_edges == initial_edges \ final_edges
    IN  [edges_added |-> added_edges,
         edges_removed |-> removed_edges,
         has_changes |-> Cardinality(added_edges) > 0 \/ Cardinality(removed_edges) > 0]

\* _format_success_response raises on len() of null nodes
FormatSuccessRaises(initial_scene_graph, final_scene_graph) ==
    initial_scene_graph.nodes_null \/ final_scene_graph.nodes_null

\* Variant that reports success only when the scene graph has changed
FormatSuccessOnlyOnChange(initial_scene_graph, final_scene_graph) ==
    Response(IF AnalyzeSceneChanges(initial_scene_graph, final_scene_graph).has_changes
             THEN "execution_success" ELSE "execution_timeout",
             None, final_scene_graph,
             AnalyzeSceneChanges(initial_scene_graph, final_scene_graph))

\* _format_success_response
FormatSuccessResponse(initial_scene_graph, final_scene_graph) ==
    Response("execution_success", None, final_scene_graph,
             AnalyzeSceneChanges(initial_scene_graph, final_scene_graph))

\* Variant of _format_timeout_response that reports its argument
FormatTimeoutResponseInitial(initial_scene_graph, store_scene_graph) ==
    Response("execution_timeout", None, initial_scene_graph, NoChanges)

\* _format_timeout_response: the store's snapshot, not its argument
FormatTimeoutResponse(initial_scene_graph, store_scene_graph) ==
    Response("execution_timeout", None, store_scene_graph, NoChanges)

\* _format_error_response
FormatErrorResponse(initial_scene_graph, store_scene_graph) ==
    Response("execution_error", None, store_scene_graph, NoChanges)

\* Variant of the validity test of execute that lets every result through
AnyResultValid(validation_result) == TRUE

\* validation_result.get("is_valid", False) in execute
IsValidResult(validation_result) == validation_result.is_valid

\* Variant in which the flag set before the wait is still there when it starts
FlagCarriedOver(flag) == flag

\* self.trigger_received = False before the wait loop (line 420)
FlagBeforeWait(flag) == FALSE

\* Variant of the finally clause that leaves the flag as it is
FlagKept(flag) == flag

\* The finally clause of _execute_action: self.trigger_received = False
FlagAfterFinally(flag) == FALSE

\* ------------------------------------------------------------------------
\* State
\* ------------------------------------------------------------------------
VARIABLES
    vsg,     \* validator run: the scene graph handed to _validate_action_command
    vcmd,    \* validator run: the command text
    vres,    \* validator run: the returned validation result
    vpc,     \* validator run: "start" before the call, "done" after it
    ros_available,            \* publishers and the trigger subscription exist
    current_scene_graph,      \* SceneGraphManager.current_scene_graph
    raw_msg,                  \* SceneGraphManager.raw_msg (the message's payload)
    last_call_message,        \* LangGraphAgent.last_call_message
    last_last_call_message,   \* LangGraphAgent.last_last_call_message
    same_tool_count,          \* LangGraphAgent.same_tool_count
    validation_count,         \* tool.validation_count
    consecutive_failures,     \* tool.consecutive_failures
    init_scene_graph_data,    \* tool.init_scene_graph_data
    init_raw_data,            \* tool.init_raw_data
    trigger_received,         \* tool.trigger_received
    pc,                       \* control thread position
    query,                    \* argument of the call in progress
    initial_scene_graph_data, \* parameter of _execute_action
    elapsed,                  \* wait-loop iterations slept since start_time
    result,                   \* what the call returned to the planner
    instruction,              \* last message on the outbound action channel
    call_published,           \* history: the call in progress has published
    sig_in_window,            \* history: a true completion signal was delivered
                              \* after the publish and before the deadline
    prev_call,                \* history: the task's latest submission to the
                              \* guard, [cmd, verdict]
    prev_prev_call,           \* history: the submission before that one
    run_len,                  \* history: length of the run of identical
                              \* submissions that ends with prev_call
    run_head_admitted,        \* history: the first submission of that run was
                              \* passed on to the tool
    failed_in_row,            \* history: the task's latest tool calls that were
                              \* answered validation_failed, one after another
    node,                     \* orchestration run: the graph node to run next
    messages,                 \* orchestration run: AgentState["messages"]
    last_record,              \* LangGraphAgent.execution_records[-1]
    path,                     \* history: the nodes the run has executed
    runs,                     \* agent.invoke calls made so far
    execution_records,        \* LangGraphAgent.execution_records
    tasks,                    \* history: process_user_input calls made so far
    parse_success_count,      \* SceneGraphManager.parse_success_count
    parse_error_count,        \* SceneGraphManager.parse_error_count
    waiting_for_update,       \* SceneGraphManager.waiting_for_update
    stable_frame_count,       \* SceneGraphManager.stable_frame_count
    scene_graph_history,      \* SceneGraphManager.scene_graph_history
    last_scene_graph,         \* SceneGraphManager.last_scene_graph
    frames_since_waiting,     \* history: snapshots accepted since waiting began
    heap,                     \* the contents of the snapshot objects, by identity
    store_ref,                \* the object SceneGraphManager.current_scene_graph names
    handed,                   \* the snapshot a reader was handed and what it held then
    refresh_pc,               \* force_refresh_from_ros: position of the call
    pump_source,              \* force_refresh_from_ros: which of agent, ros_manager is given
    refresh_i,                \* force_refresh_from_ros: i
    old_scene_graph,          \* force_refresh_from_ros: old_scene_graph
    old_parse_count,          \* force_refresh_from_ros: old_parse_count
    refreshed,                \* force_refresh_from_ros: the value returned
    pumps,                    \* history: spin_once calls made by the call
    late_pumps,               \* history: those made with a snapshot accepted since the read
    accepted_in_call,         \* history: whether a snapshot was accepted during the call,
                              \* before or after the call read the success counter
    llm_response,             \* _call_model: what self.llm.invoke returned
    planned,                  \* _call_model: the message it returns
    lookup_cmd,               \* the tool: what _parse_flexible_action_command returned
    ppc,                       \* position in the planning step and the tool call after it
    trigger_msgs,   \* history: /agent_trigger messages delivered so far
    last_trigger,   \* history: the data of the latest /agent_trigger message
    failures_at_start,   \* history: tool.consecutive_failures when agent.invoke was entered
    listener_pc,   \* update_scene_graph on the executor thread: its position
    attempt_no,   \* process_user_input: attempt
    task_queue,   \* LangGraphAgent.task_queue
    listener_parsed,   \* update_scene_graph between its two stores: the snapshot still to be stored
    reader_pc,   \* position of get_current_raw_msg: "idle" or "load_parsed"
    loaded_raw,   \* the raw message get_current_raw_msg has loaded
    scene_graph_init,   \* the last message on the initial-scene topic
    validated_snapshot,   \* the snapshot the published command was validated against
    input_pc,   \* process_user_input: "idle", "loop", "invoke" or "report"
    notices,   \* history: notices on the task-completion topic since the call was entered
    publish_calls,   \* history: calls of _publish_task_completion since the call was entered
    inputs_done,   \* history: process_user_input calls that returned
    response_kind,   \* process_user_input: which response_text it is about to return
    invoke_count,   \* history: agent.invoke calls since process_user_input was entered
    arrived,   \* history: the tasks _on_task_received was called with, in order
    processed,   \* history: the queued tasks process_user_input has returned for, in order
    loop_pc,   \* AgentRunner._main_loop: its position
    current_task,   \* _handle_ros_tasks: the task being processed, 0 when none
    taken_in_iteration,   \* history: tasks taken from the queue in this loop iteration
    msgs_delivered   \* history: messages delivered on the task topic

vvars == <<vsg, vcmd, vres, vpc>>

store_vars == <<current_scene_graph, raw_msg>>

guard_vars == <<last_call_message, last_last_call_message, same_tool_count>>

tool_vars == <<validation_count, consecutive_failures, init_scene_graph_data,
               init_raw_data>>

channel_vars == <<instruction, call_published>>

guard_hist == <<prev_call, prev_prev_call, run_len, run_head_admitted>>

hist_vars == <<prev_call, prev_prev_call, run_len, run_head_admitted, failed_in_row>>

orch_vars == <<node, messages, last_record, path, runs>>

log_vars == <<execution_records, tasks>>

stability_vars == <<waiting_for_update, stable_frame_count, scene_graph_history,
                    last_scene_graph, frames_since_waiting>>

count_vars == <<parse_success_count, parse_error_count>>

heap_vars == <<heap, store_ref, handed>>

store_ext == <<count_vars, stability_vars, heap_vars>>

loop_vars == <<refresh_pc, pump_source, refresh_i, old_scene_graph, old_parse_count,
               refreshed, pumps, late_pumps>>

refresh_vars == <<loop_vars, accepted_in_call>>

plan_vars == <<llm_response, planned, lookup_cmd, ppc>>

signal_vars == <<trigger_msgs, last_trigger>>

run_vars == <<failures_at_start>>

pair_vars == <<listener_pc, listener_parsed, reader_pc, loaded_raw, scene_graph_init,
               validated_snapshot>>

input_vars == <<attempt_no, input_pc, notices, publish_calls, inputs_done,
                response_kind, invoke_count>>

queue_vars == <<task_queue, arrived, processed, loop_pc, current_task,
                taken_in_iteration, msgs_delivered>>

late_vars == <<signal_vars, run_vars, pair_vars, input_vars, queue_vars>>

\* The variables of the other specifications
beyond_log == <<store_ext, refresh_vars, plan_vars, late_vars>>

beyond_store == <<log_vars, loop_vars, plan_vars, late_vars>>

beyond_plan == <<log_vars, store_ext, refresh_vars, late_vars>>

ext_vars == <<log_vars, store_ext, refresh_vars, plan_vars, late_vars>>

vars == <<vsg, vcmd, vres, vpc, ros_available, current_scene_graph, raw_msg,
          last_call_message, last_last_call_message, same_tool_count,
          validation_count, consecutive_failures, init_scene_graph_data,
          init_raw_data, trigger_received, pc, query, initial_scene_graph_data,
          elapsed, result, instruction, call_published, sig_in_window,
          prev_call, prev_prev_call, run_len, run_head_admitted, failed_in_row,
          node, messages, last_record, path, runs, execution_records, tasks,
          parse_success_count, parse_error_count, waiting_for_update,
          stable_frame_count, scene_graph_history, last_scene_graph,
          frames_since_waiting, heap, store_ref, handed, refresh_pc, pump_source,
          refresh_i, old_scene_graph, old_parse_count, refreshed, pumps, late_pumps,
          accepted_in_call, llm_response, planned, lookup_cmd, ppc,
          trigger_msgs,
          last_trigger,
          failures_at_start,
          listener_pc,
          attempt_no,
          task_queue,
          listener_parsed,
          reader_pc,
          loaded_raw,
          scene_graph_init,
          validated_snapshot,
          input_pc,
          notices,
          publish_calls,
          inputs_done,
          response_kind,
          invoke_count,
          arrived,
          processed,
          loop_pc,
          current_task,
          taken_in_iteration,
          msgs_delivered>>

NoResult == Result(FALSE, 0, None, None, MoveDetails(FALSE, FALSE, FALSE, FALSE))

\* One submission to the guard and what the guard did with it
Submission(cmd, verdict) == [cmd |-> cmd, verdict |-> verdict]

NoSubmission == Submission(NoCall, "none")

\* One entry of execution_records: its type, the status of the tool answer it
\* holds in tool_results, and its task_failed flag
Record(type, status, task_failed) ==
    [type |-> type, status |-> status, task_failed |-> task_failed]

NoRecord == Record("none", "none", FALSE)

\* No orchestration run has been started
OrchIdle ==
    /\ node = "idle"
    /\ messages = <<>>
    /\ last_record = NoRecord
    /\ path = <<>>
    /\ runs = 0

\* State after construction of the store, the tool and the agent
\* Identities of the snapshot objects alive at one time: the one the store
\* names and the one a reader still holds
ObjectIds == 1 .. 2

Unallocated == [kind |-> "unallocated"]

NoSnapshot == [ref |-> 0, seen |-> Unallocated]

NoMessage == [type |-> "none", name |-> None, content |-> <<>>, tool_calls |-> <<>>]

ProtocolInit ==
    /\ current_scene_graph = NoSG
    /\ raw_msg = NoSG
    /\ last_call_message = NoCall
    /\ last_last_call_message = NoCall
    /\ same_tool_count = 0
    /\ validation_count = 0
    /\ consecutive_failures = 0
    /\ init_scene_graph_data = NoSG
    /\ init_raw_data = NoSG
    /\ trigger_received = FALSE
    /\ pc = "idle"
    /\ query = NoCall
    /\ initial_scene_graph_data = NoSG
    /\ elapsed = 0
    /\ result = NoResponse
    /\ instruction = NoCall
    /\ call_published = FALSE
    /\ sig_in_window = FALSE
    /\ prev_call = NoSubmission
    /\ prev_prev_call = NoSubmission
    /\ run_len = 0
    /\ run_head_admitted = FALSE
    /\ failed_in_row = 0
    /\ OrchIdle
    /\ execution_records = <<>>
    /\ tasks = 0
    /\ parse_success_count = 0
    /\ parse_error_count = 0
    /\ waiting_for_update = FALSE
    /\ stable_frame_count = 0
    /\ scene_graph_history = <<>>
    /\ last_scene_graph = NoSG
    /\ frames_since_waiting = 0
    /\ heap = [id \in ObjectIds |-> IF id = 1 THEN NoSG ELSE Unallocated]
    /\ store_ref = 1
    /\ handed = NoSnapshot
    /\ refresh_pc = "idle"
    /\ pump_source = "none"
    /\ refresh_i = 0
    /\ old_scene_graph = NoSG
    /\ old_parse_count = 0
    /\ refreshed = FALSE
    /\ pumps = 0
    /\ late_pumps = 0
    /\ accepted_in_call = "none"
    /\ llm_response = NoMessage
    /\ planned = NoMessage
    /\ lookup_cmd = NoAction
    /\ ppc = "idle"
    /\ trigger_msgs = 0
    /\ last_trigger = FALSE
    /\ failures_at_start = 0
    /\ listener_pc = "idle"
    /\ attempt_no = 0
    /\ task_queue = <<>>
    /\ listener_parsed = NoSG
    /\ reader_pc = "idle"
    /\ loaded_raw = NoSG
    /\ scene_graph_init = NoSG
    /\ validated_snapshot = NoSG
    /\ input_pc = "idle"
    /\ notices = 0
    /\ publish_calls = 0
    /\ inputs_done = 0
    /\ response_kind = "none"
    /\ invoke_count = 0
    /\ arrived = <<>>
    /\ processed = <<>>
    /\ loop_pc = "spin"
    /\ current_task = 0
    /\ taken_in_iteration = 0
    /\ msgs_delivered = 0

ValidatorIdle ==
    /\ vsg = NoSG
    /\ vcmd = BadCommand
    /\ vres = NoResult
    /\ vpc = "start"

\* ------------------------------------------------------------------------
\* SpecV: one call of _validate_action_command on any scene and command of
\* the input domain
\* ------------------------------------------------------------------------
InitV ==
    /\ vsg \in ValidatorScenes
    /\ vcmd = BadCommand
    /\ vres = NoResult
    /\ vpc = "start"
    /\ ros_available = TRUE
    /\ ProtocolInit

ValidateCall ==
    /\ vpc = "start"
    /\ \E cmd \in ValidatorCommands :
          /\ vcmd' = cmd
          /\ vres' = ValidateActionCommand(cmd, vsg)
    /\ vpc' = "done"
    /\ UNCHANGED <<vsg, hist_vars, orch_vars, ros_available, ext_vars, store_vars, guard_vars, tool_vars,
                   trigger_received, pc, query, initial_scene_graph_data, elapsed,
                   result, channel_vars, sig_in_window>>

NextV == ValidateCall

SpecV == InitV /\ [][NextV]_vars

\* ------------------------------------------------------------------------
\* Spec: the planner's tool calls through the repetition guard, the tool's
\* execute / _execute_action on the control thread, and the bus executor
\* thread delivering scene graphs and completion signals at any moment
\* ------------------------------------------------------------------------
Init ==
    /\ ValidatorIdle
    /\ ros_available \in BOOLEAN
    /\ ProtocolInit

\* A true signal delivered now falls after the publish and before the
\* deadline; a signal during the last sleep, which ends at the deadline, is
\* not counted
InWindow ==
    /\ call_published
    /\ \/ pc = "clear_flag"
       \/ pc = "wait" /\ elapsed < MaxWait
       \/ pc = "sleep" /\ elapsed + 1 < MaxWait

\* Variant of the guard without the test against the call before last
GuardVerdictLastOnly(tool_args) ==
    IF last_call_message # NoCall /\ tool_args = last_call_message
         /\ same_tool_count + 1 >= MaxSameToolCount
    THEN "repeated_action"
    ELSE "admitted"

\* Variant of the guard whose repetition test is > instead of >=
GuardVerdictOffByOne(tool_args) ==
    IF last_last_call_message # NoCall /\ tool_args = last_last_call_message
    THEN "oscillation"
    ELSE IF last_call_message # NoCall /\ tool_args = last_call_message
              /\ same_tool_count + 1 > MaxSameToolCount
    THEN "repeated_action"
    ELSE "admitted"

\* The verdict of the repetition guard of _call_validate_execute on tool_args
GuardVerdict(tool_args) ==
    IF last_last_call_message # NoCall /\ tool_args = last_last_call_message
    THEN "oscillation"
    ELSE IF last_call_message # NoCall /\ tool_args = last_call_message
              /\ same_tool_count + 1 >= MaxSameToolCount
    THEN "repeated_action"
    ELSE "admitted"

\* _call_validate_execute up to the tool invocation: the repetition guard
AgentCall(cmd) ==
    /\ pc = "idle"
    /\ validation_count < MaxCalls \/ GuardVerdict(cmd) # "admitted"
    /\ call_published' = FALSE
    /\ sig_in_window' = FALSE
    /\ IF GuardVerdict(cmd) = "oscillation"
       THEN /\ same_tool_count' = 0
            /\ last_call_message' = NoCall
            /\ last_last_call_message' = NoCall
            /\ result' = Response("oscillation", None, NoSG, NoChanges)
            /\ UNCHANGED <<pc, query>>
       ELSE IF GuardVerdict(cmd) = "repeated_action"
       THEN /\ same_tool_count' = 0
            /\ last_call_message' = NoCall
            /\ result' = Response("repeated_action", None, NoSG, NoChanges)
            /\ UNCHANGED <<last_last_call_message, pc, query>>
       ELSE /\ IF last_call_message # NoCall /\ cmd = last_call_message
               THEN /\ same_tool_count' = same_tool_count + 1
                    /\ UNCHANGED <<last_call_message, last_last_call_message>>
               ELSE /\ same_tool_count' = 0
                    /\ last_last_call_message' = last_call_message
                    /\ last_call_message' = cmd
            /\ query' = cmd
            /\ result' = NoResponse
            /\ pc' = "execute"
    /\ prev_call' = Submission(cmd, GuardVerdict(cmd))
    /\ prev_prev_call' = prev_call
    /\ run_len' = IF prev_call.cmd = cmd THEN run_len + 1 ELSE 1
    /\ run_head_admitted' = IF prev_call.cmd = cmd THEN run_head_admitted
                             ELSE GuardVerdict(cmd) = "admitted"
    /\ UNCHANGED <<vvars, orch_vars, ros_available, ext_vars, store_vars, tool_vars,
                   trigger_received, initial_scene_graph_data, elapsed, instruction,
                   failed_in_row>>

\* process_user_input: reset_validation_count before a new task
ProcessUserInput ==
    /\ pc = "idle"
    /\ validation_count' = 0
    /\ consecutive_failures' = 0
    /\ same_tool_count' = 0
    /\ last_call_message' = NoCall
    /\ last_last_call_message' = NoCall
    /\ prev_call' = NoSubmission
    /\ prev_prev_call' = NoSubmission
    /\ run_len' = 0
    /\ run_head_admitted' = FALSE
    /\ failed_in_row' = 0
    /\ UNCHANGED <<vvars, orch_vars, ros_available, ext_vars, store_vars, init_scene_graph_data,
                   init_raw_data, trigger_received, pc, query,
                   initial_scene_graph_data, elapsed, result, channel_vars,
                   sig_in_window>>

\* execute, from its entry to the validation verdict
Execute ==
    /\ pc = "execute"
    /\ validation_count' = validation_count + 1
    /\ IF consecutive_failures >= MaxConsecutiveFailures
       THEN /\ consecutive_failures' = 0
            /\ result' = Response("task_failed", None, init_scene_graph_data, NoChanges)
            /\ pc' = "idle"
            /\ query' = NoCall
            /\ failed_in_row' = 0
            /\ UNCHANGED <<init_scene_graph_data, init_raw_data,
                           initial_scene_graph_data>>
       ELSE LET first == validation_count' = 1
                snapshot == IF first THEN current_scene_graph ELSE init_scene_graph_data
                validation_result == ValidateActionCommand(query, snapshot)
            IN  /\ init_scene_graph_data' = snapshot
                /\ init_raw_data' = IF first THEN raw_msg ELSE init_raw_data
                /\ IF query = EmptyQuery
                   THEN /\ result' = Response("validation_failed", "NoCommand",
                                              snapshot, NoChanges)
                        /\ pc' = "idle"
                        /\ query' = NoCall
                        /\ failed_in_row' = failed_in_row + 1
                        /\ UNCHANGED <<consecutive_failures, initial_scene_graph_data>>
                   ELSE IF ~IsValidResult(validation_result)
                   THEN /\ consecutive_failures' = consecutive_failures + 1
                        /\ result' = Response("validating", validation_result.kind,
                                              snapshot, NoChanges)
                        /\ pc' = "refresh"
                        /\ failed_in_row' = failed_in_row + 1
                        /\ UNCHANGED <<query, initial_scene_graph_data>>
                   ELSE /\ consecutive_failures' = 0
                        /\ initial_scene_graph_data' = snapshot
                        /\ result' = NoResponse
                        /\ pc' = "publish"
                        /\ failed_in_row' = 0
                        /\ UNCHANGED query
    /\ UNCHANGED <<vvars, guard_hist, orch_vars, ros_available, ext_vars, store_vars, guard_vars,
                   trigger_received, elapsed, channel_vars, sig_in_window>>

\* execute after a failed validation: pump the bus, re-read the store, return
RefreshAfterFailure ==
    /\ pc = "refresh"
    /\ init_scene_graph_data' = current_scene_graph
    /\ init_raw_data' = raw_msg
    /\ result' = Response("validation_failed", result.reason, current_scene_graph,
                          NoChanges)
    /\ pc' = "idle"
    /\ query' = NoCall
    /\ UNCHANGED <<vvars, hist_vars, orch_vars, ros_available, ext_vars, store_vars, guard_vars,
                   validation_count, consecutive_failures, trigger_received,
                   initial_scene_graph_data, elapsed, channel_vars, sig_in_window>>

\* _execute_action: _publish_action_cmd (nothing goes out without a publisher)
PublishActionCmd ==
    /\ pc = "publish"
    /\ IF ros_available
       THEN /\ instruction' = query
            /\ call_published' = TRUE
       ELSE UNCHANGED channel_vars
    /\ pc' = "clear_flag"
    /\ UNCHANGED <<vvars, hist_vars, orch_vars, ros_available, ext_vars, store_vars, guard_vars, tool_vars,
                   trigger_received, query, initial_scene_graph_data, elapsed,
                   result, sig_in_window>>

\* _execute_action between the publish and the try block: len() of the
\* snapshot's nodes (a raise here escapes the tool and is caught by
\* _call_validate_execute), self.trigger_received = False, start_time
ClearTrigger ==
    /\ pc = "clear_flag"
    /\ IF initial_scene_graph_data.nodes_null
       THEN /\ result' = Response("tool_call_failed", None, NoSG, NoChanges)
            /\ pc' = "idle"
            /\ query' = NoCall
            /\ initial_scene_graph_data' = NoSG
            /\ call_published' = FALSE
            /\ sig_in_window' = FALSE
            /\ UNCHANGED <<trigger_received, elapsed, instruction>>
       ELSE /\ trigger_received' = FlagBeforeWait(trigger_received)
            /\ elapsed' = 0
            /\ pc' = "wait"
            /\ UNCHANGED <<query, initial_scene_graph_data, result, channel_vars,
                           sig_in_window>>
    /\ UNCHANGED <<vvars, hist_vars, orch_vars, ros_available, ext_vars, store_vars, guard_vars, tool_vars>>

\* One pass of the wait loop: the deadline test, then the flag test
WaitIteration ==
    /\ pc = "wait"
    /\ pc' = IF elapsed >= MaxWait THEN "timeout"
             ELSE IF trigger_received THEN "settle"
             ELSE "sleep"
    /\ UNCHANGED <<vvars, hist_vars, orch_vars, ros_available, ext_vars, store_vars, guard_vars, tool_vars,
                   trigger_received, query, initial_scene_graph_data, elapsed,
                   result, channel_vars, sig_in_window>>

\* time.sleep(check_interval)
Sleep ==
    /\ pc = "sleep"
    /\ elapsed' = elapsed + 1
    /\ pc' = "wait"
    /\ UNCHANGED <<vvars, hist_vars, orch_vars, ros_available, ext_vars, store_vars, guard_vars, tool_vars,
                   trigger_received, query, initial_scene_graph_data, result,
                   channel_vars, sig_in_window>>

\* Signal seen: settle, re-read the store, build the success response
Settle ==
    /\ pc = "settle"
    /\ init_scene_graph_data' = current_scene_graph
    /\ init_raw_data' = raw_msg
    /\ IF FormatSuccessRaises(initial_scene_graph_data, current_scene_graph)
       THEN /\ pc' = "except"
            /\ UNCHANGED result
       ELSE /\ result' = FormatSuccessResponse(initial_scene_graph_data,
                                               current_scene_graph)
            /\ pc' = "finally"
    /\ UNCHANGED <<vvars, hist_vars, orch_vars, ros_available, ext_vars, store_vars, guard_vars,
                   validation_count, consecutive_failures, trigger_received, query,
                   initial_scene_graph_data, elapsed, channel_vars, sig_in_window>>

\* Deadline passed: _format_timeout_response
TimeoutResponse ==
    /\ pc = "timeout"
    /\ result' = FormatTimeoutResponse(initial_scene_graph_data, current_scene_graph)
    /\ pc' = "finally"
    /\ UNCHANGED <<vvars, hist_vars, orch_vars, ros_available, ext_vars, store_vars, guard_vars, tool_vars,
                   trigger_received, query, initial_scene_graph_data, elapsed,
                   channel_vars, sig_in_window>>

\* except Exception: _format_error_response
ErrorResponse ==
    /\ pc = "except"
    /\ result' = FormatErrorResponse(initial_scene_graph_data, current_scene_graph)
    /\ pc' = "finally"
    /\ UNCHANGED <<vvars, hist_vars, orch_vars, ros_available, ext_vars, store_vars, guard_vars, tool_vars,
                   trigger_received, query, initial_scene_graph_data, elapsed,
                   channel_vars, sig_in_window>>

\* finally: clear the flag; then the call returns and its locals are gone
Finally ==
    /\ pc = "finally"
    /\ trigger_received' = FlagAfterFinally(trigger_received)
    /\ pc' = "idle"
    /\ query' = NoCall
    /\ initial_scene_graph_data' = NoSG
    /\ elapsed' = 0
    /\ call_published' = FALSE
    /\ sig_in_window' = FALSE
    /\ UNCHANGED <<vvars, hist_vars, orch_vars, ros_available, ext_vars, store_vars, guard_vars, tool_vars,
                   result, instruction>>

\* _agent_trigger_callback: what it does to the tool
TriggerCallback(data) ==
    /\ ros_available
    /\ trigger_received' = (trigger_received \/ data)
    /\ sig_in_window' = (sig_in_window \/ (data /\ InWindow))
    /\ UNCHANGED <<vvars, hist_vars, orch_vars, ros_available, store_vars, guard_vars, tool_vars,
                   pc, query, initial_scene_graph_data, elapsed, result,
                   channel_vars>>

\* _agent_trigger_callback on the executor thread
DeliverTrigger(data) ==
    /\ TriggerCallback(data)
    /\ UNCHANGED ext_vars

\* _ros2_callback and update_scene_graph on the executor thread
UpdateSceneGraph(parsed_data) ==
    /\ ros_available
    /\ raw_msg' = parsed_data
    /\ current_scene_graph' = parsed_data
    /\ UNCHANGED <<vvars, hist_vars, orch_vars, ros_available, ext_vars, guard_vars, tool_vars, trigger_received,
                   pc, query, initial_scene_graph_data, elapsed, result,
                   channel_vars, sig_in_window>>

\* The steps of the control thread inside a tool call
ControlThread ==
    \/ Execute
    \/ RefreshAfterFailure
    \/ PublishActionCmd
    \/ ClearTrigger
    \/ WaitIteration
    \/ Sleep
    \/ Settle
    \/ TimeoutResponse
    \/ ErrorResponse
    \/ Finally

Next ==
    \/ \E cmd \in AgentCommands : AgentCall(cmd)
    \/ ProcessUserInput
    \/ ControlThread
    \/ \E data \in BOOLEAN : DeliverTrigger(data)
    \/ \E parsed_data \in BusScenes : UpdateSceneGraph(parsed_data)

Spec == Init /\ [][Next]_vars

\* The control thread keeps running: sleeps return and time advances
FairSpec == Spec /\ WF_vars(ControlThread)

\* ------------------------------------------------------------------------
\* Properties of the execution protocol (Spec, FairSpec)
\* ------------------------------------------------------------------------
RejectedStatuses ==
    {"validation_failed", "task_failed", "oscillation", "repeated_action"}

ExecutionStatuses == {"execution_success", "execution_timeout", "execution_error"}

\* C1: a command goes out on the action channel only in the publish step of
\* a tool call whose command was admitted by the repetition guard and is
\* valid against the snapshot it was validated on, and it is that command;
\* a call that ends in validation_failed, task_failed or a guard rejection
\* has published nothing.
C1_PublishOnlyValidated ==
    [][ /\ (instruction' # instruction \/ (call_published' /\ ~call_published))
           => /\ pc = "publish"
              /\ query = last_call_message
              /\ initial_scene_graph_data = init_scene_graph_data
              /\ ValidateActionCommand(query, initial_scene_graph_data).is_valid
              /\ instruction' = query
        /\ result'.status \in RejectedStatuses => ~call_published'
      ]_vars

\* A validated command has just been published
C1_Witness ==
    /\ pc = "clear_flag"
    /\ call_published
    /\ instruction = query
    /\ ValidateActionCommand(query, initial_scene_graph_data).is_valid

\* C2: a true completion signal delivered after the publish and before the
\* deadline never ends in execution_timeout.
C2_SignalNeverTimesOut ==
    (pc = "finally" /\ sig_in_window) => result.status # "execution_timeout"

\* C3: without a true completion signal inside the wait the call ends in
\* execution_timeout, nothing is raised, and the response carries the
\* snapshot the store holds when the response is built.
C3_TimeoutCarriesStoreSnapshot ==
    [][ /\ (pc = "timeout" /\ pc' = "finally")
           => /\ result'.status = "execution_timeout"
              /\ result'.scene_graph = current_scene_graph
        /\ (pc' = "finally" /\ ~sig_in_window')
           => result'.status = "execution_timeout"
        /\ (pc' = "except" \/ result'.status = "tool_call_failed")
           => sig_in_window'
      ]_vars

\* A timeout without signal whose response differs from the snapshot the
\* command was validated on: the store moved on during the wait
C3_Witness ==
    /\ pc = "finally"
    /\ ~sig_in_window
    /\ result.status = "execution_timeout"
    /\ result.scene_graph # initial_scene_graph_data

\* The states of the execution state machine
Phase ==
    CASE pc \in {"idle", "execute", "refresh", "publish"} -> "Idle"
      [] pc = "clear_flag" -> "Published"
      [] pc \in {"wait", "sleep", "settle"} -> "WaitingForSignal"
      [] pc = "timeout" -> "TimedOut"
      [] pc = "except" -> "Error"
      [] pc = "finally" /\ result.status = "execution_success" -> "Completed"
      [] pc = "finally" /\ result.status = "execution_timeout" -> "TimedOut"
      [] pc = "finally" /\ result.status = "execution_error" -> "Error"
      [] OTHER -> "Unknown"

PhaseSteps ==
    { <<"Idle", "Published">>, <<"Published", "WaitingForSignal">>,
      <<"WaitingForSignal", "Completed">>, <<"WaitingForSignal", "TimedOut">>,
      <<"WaitingForSignal", "Error">>, <<"Completed", "Idle">>,
      <<"TimedOut", "Idle">>, <<"Error", "Idle">> }

\* C4: an execution moves Idle -> Published -> WaitingForSignal, ends in
\* exactly one of Completed, TimedOut, Error and returns to Idle with the
\* completion flag cleared; no exception reaches the caller; and once the
\* command is published the call always returns.
C4_ExecutionStateMachine ==
    /\ [][ /\ Phase' = Phase \/ <<Phase, Phase'>> \in PhaseSteps
           /\ (Phase # "Idle" /\ Phase' = "Idle") => ~trigger_received'
           /\ (Phase \in {"Published", "WaitingForSignal"} /\ Phase' = "Idle") => FALSE
           /\ (pc = "finally" /\ pc' = "idle") => result'.status \in ExecutionStatuses
           /\ result'.status # "tool_call_failed"
         ]_vars
    /\ (Phase = "Published") ~> (Phase = "Idle")

\* A call that ended in Error has returned to Idle with the flag cleared
C4_Witness ==
    /\ pc = "idle"
    /\ result.status = "execution_error"
    /\ ~trigger_received

ValidatedMove == vpc = "done" /\ vcmd.verb = "move"

ValidatedAction == ParseFlexibleActionCommand(vcmd)

MinOf(S) == CHOOSE x \in S : \A y \in S : x <= y

\* Check k of the fixed order, evaluated on its own for source src and
\* target tgt.  The table-full test is the table branch of the target
\* accessibility block (lines 335-360), hence part of check 5.
FailsCheck(k, src, tgt, rel, sg) ==
    CASE k = 1 -> src \notin AllObjects(sg) \/ (tgt # Table /\ tgt \notin AllObjects(sg))
      [] k = 2 -> \/ IsCube(src) /\ ~ValidateCubeSourceAccessibility(src, sg).ok
                  \/ ~CanMoveObject(src, sg).ok
      [] k = 3 -> tgt # Table /\ IsContainer(src) /\ IsContainer(tgt)
      [] k = 4 -> tgt # Table /\ ~IsValidTargetLocation(tgt)
      [] k = 5 -> \/ tgt # Table /\ ~CanAccessTarget(tgt, sg).ok
                  \/ tgt = Table /\ TableStatus(sg) = "F"
      [] k = 6 -> tgt # Table /\ IsCube(src) /\ ~CanPlaceCubeInBox(src, tgt, sg).ok
      [] OTHER -> CheckActionAlreadyCompleted(src, tgt, rel, sg)

FailingChecks(pa, sg) ==
    {k \in 1..7 :
        FailsCheck(k, pa.source_object, pa.target_location, pa.relation, sg)}

\* The reason kinds each check can report
KindsOfCheck(k) ==
    CASE k = 1 -> {"NotFound"}
      [] k = 2 -> {"LocationUnknown", "Blocked", "ClosedContainer", "DrawerOrderViolation"}
      [] k = 3 -> {"ContainerNesting"}
      [] k = 4 -> {"InvalidTargetType"}
      [] k = 5 -> {"Blocked", "ClosedContainer", "DrawerOrderViolation", "TableFull"}
      [] k = 6 -> {"Blocked", "CapacityExceeded"}
      [] k = 7 -> {"AlreadySatisfied"}
      [] OTHER -> {"ok"}

\* C6: a move is reported with the failure of the earliest failing check of
\* the order existence, source movability, container nesting, target type,
\* target accessibility, cube capacity, idempotence; it is valid exactly when
\* no check fails, and the sub-check flags of the result show that nothing
\* after the first failure was evaluated.
C6_EarliestFailingCheck ==
    ValidatedMove =>
        LET failing == FailingChecks(ValidatedAction, vsg)
            d == vres.validation_details
        IN  /\ vres.is_valid <=> failing = {}
            /\ failing # {} => vres.step = MinOf(failing)
            /\ failing = {} => vres.step = 8
            /\ vres.kind \in KindsOfCheck(vres.step)
            /\ d.objects_exist <=> vres.step > 1
            /\ d.source_movable <=> vres.step > 2
            /\ d.target_accessible <=> vres.step > 6
            /\ d.action_valid <=> vres.step = 8

\* A move failing the source movability and the target accessibility check
\* (and possibly more) was reported with the earlier one
C6_Witness ==
    /\ ValidatedMove
    /\ {2, 5} \subseteq FailingChecks(ValidatedAction, vsg)
    /\ vres.step = 2

\* C7: a move of a cube into a container that already holds three cubes is
\* never validated as valid.
C7_FourthCubeRejected ==
    ( /\ ValidatedMove
      /\ IsCube(vcmd.obj)
      /\ NormalizeRelation(vcmd.prep) = "in"
      /\ IsContainer(vcmd.tgt)
      /\ CubesIn(vcmd.tgt, vsg) >= 3 )
    => ~vres.is_valid

DrawersAbove(drawer_name) ==
    IF drawer_name = DrawerLow THEN {DrawerMiddle, DrawerHigh}
    ELSE IF drawer_name = DrawerMiddle THEN {DrawerHigh}
    ELSE {}

\* The drawer rule as stated: the drawer is open, every drawer above is closed
DrawerRuleHolds(drawer_name, sg) ==
    /\ GetObjectState(drawer_name, sg) = "open"
    /\ \A u \in DrawersAbove(drawer_name) : GetObjectState(u, sg) = "closed"

\* C8: a move whose target, or whose source container, is a drawer of the
\* cabinet is valid only if that drawer is open and every drawer above it is
\* closed.
C8_DrawerRule ==
    (ValidatedMove /\ vres.is_valid) =>
        /\ IsDrawerName(vcmd.tgt) => DrawerRuleHolds(vcmd.tgt, vsg)
        /\ \A dr \in Drawers :
              Edge(vcmd.obj, "in", dr) \in SeqToSet(vsg.edges)
                 => DrawerRuleHolds(dr, vsg)

\* The object and the target of the move are found and, for a cube, the
\* cube's own location check passes
SourceCheckReached(src, tgt, sg) ==
    /\ src \in AllObjects(sg)
    /\ tgt = Table \/ tgt \in AllObjects(sg)
    /\ IsCube(src) => ValidateCubeSourceAccessibility(src, sg).ok

\* C9 as stated: every move whose object has something (on) it is rejected
\* as Blocked, and the reason names an object that is on it.
C9_BlockedNamesObstruction ==
    (ValidatedMove /\ BlockersOf(vsg.edges, vcmd.obj) # <<>>) =>
        /\ ~vres.is_valid
        /\ vres.kind = "Blocked"
        /\ vres.who \in SeqToSet(BlockersOf(vsg.edges, vcmd.obj))

\* C9: every move whose object has something (on) it is rejected; when the
\* object and the target are found and, for a cube, its location check
\* passes, the reason is Blocked and names the first object that is on it;
\* a move whose object is (in) a closed container is rejected as well.
C9_BlockedSourceRejected ==
    ValidatedMove =>
        /\ BlockersOf(vsg.edges, vcmd.obj) # <<>> =>
              /\ ~vres.is_valid
              /\ SourceCheckReached(vcmd.obj, vcmd.tgt, vsg) =>
                    /\ vres.kind = "Blocked"
                    /\ vres.who = BlockersOf(vsg.edges, vcmd.obj)[1]
        /\ (\E c \in AllObjects(vsg) :
               /\ Edge(vcmd.obj, "in", c) \in SeqToSet(vsg.edges)
               /\ GetObjectState(c, vsg) = "closed")
           => ~vres.is_valid

\* "move red_box on table" with blue_cube(on)red_box: Blocked naming blue_cube
C9_Witness ==
    /\ ValidatedMove
    /\ vcmd = Cmd("move", "red_box", "on", Table)
    /\ Edge("blue_cube", "on", "red_box") \in SeqToSet(vsg.edges)
    /\ vres.kind = "Blocked"
    /\ vres.who = "blue_cube"

\* C10: a move whose exact target relation is already an edge of the
\* snapshot is never valid, and when no earlier check fails it is reported
\* as AlreadySatisfied.
C10_NoRedundantMove ==
    ( /\ ValidatedMove
      /\ Edge(vcmd.obj, NormalizeRelation(vcmd.prep), vcmd.tgt) \in SeqToSet(vsg.edges) )
    => /\ ~vres.is_valid
       /\ FailingChecks(ValidatedAction, vsg) \cap (1..6) = {}
             => vres.kind = "AlreadySatisfied"

\* "move red_cube1 in red_box" on a snapshot holding red_cube1(in)red_box
C10_Witness ==
    /\ ValidatedMove
    /\ vcmd = Cmd("move", "red_cube1", "in", "red_box")
    /\ Edge("red_cube1", "in", "red_box") \in SeqToSet(vsg.edges)
    /\ vres.kind = "AlreadySatisfied"

\* The container names of the model: drawers, lid_box and *_box
ContainerNames == Drawers \cup BoxNames

\* C11: a move that places a container (a drawer, lid_box or a *_box) on or
\* in another container is never validated as valid.
C11_NoContainerNesting ==
    ( /\ ValidatedMove
      /\ vcmd.obj \in ContainerNames
      /\ vcmd.tgt \in ContainerNames )
    => ~vres.is_valid

\* A movable red_box sent onto / into lid_box fails the nesting check itself
C11_Witness ==
    /\ ValidatedMove
    /\ vcmd.obj = "red_box"
    /\ vcmd.tgt = "lid_box"
    /\ vres.kind = "ContainerNesting"
    /\ vres.who = "lid_box"

\* The node of the snapshot named name carries the state tag
HasStateTag(name, tag, sg) == ~sg.nodes_null /\ <<name, tag>> \in sg.nodes

\* C12: "open T" is accepted exactly when T is in the snapshot with state
\* tag closed and "close T" exactly when T is there with state tag open; an
\* absent target is reported NotFound, a target without tag NoStateInfo,
\* a target already in the requested state AlreadyOpen / AlreadyClosed.
C12_OpenCloseIffOppositeState ==
    (vpc = "done" /\ vcmd.verb \in {"open", "close"}) =>
        /\ vcmd.verb = "open" => (vres.is_valid <=> HasStateTag(vcmd.tgt, "closed", vsg))
        /\ vcmd.verb = "close" => (vres.is_valid <=> HasStateTag(vcmd.tgt, "open", vsg))
        /\ (~vsg.nodes_null /\ vcmd.tgt \notin AllObjects(vsg)) => vres.kind = "NotFound"
        /\ (vcmd.tgt \in AllObjects(vsg)
              /\ ~HasStateTag(vcmd.tgt, "open", vsg)
              /\ ~HasStateTag(vcmd.tgt, "closed", vsg)) => vres.kind = "NoStateInfo"
        /\ (vcmd.verb = "open" /\ HasStateTag(vcmd.tgt, "open", vsg))
              => vres.kind = "AlreadyOpen"
        /\ (vcmd.verb = "close" /\ HasStateTag(vcmd.tgt, "closed", vsg))
              => vres.kind = "AlreadyClosed"

\* "close lid_box" on a snapshot with lid_box(open) was accepted
C12_Witness ==
    /\ vpc = "done"
    /\ vcmd = Cmd("close", None, None, "lid_box")
    /\ HasStateTag("lid_box", "open", vsg)
    /\ vres.is_valid

\* Some object of the snapshot has more than one (on)/(in) outgoing edge
HasContradiction(sg) ==
    \E i, j \in DOMAIN sg.edges :
        /\ i # j
        /\ sg.edges[i].o = sg.edges[j].o
        /\ sg.edges[i].r \in {"on", "in"}
        /\ sg.edges[j].r \in {"on", "in"}

\* C13: a snapshot in which some object has more than one (on)/(in)
\* outgoing edge is never used to validate a command as valid.
C13_ContradictoryNeverValid ==
    (vpc = "done" /\ HasContradiction(vsg)) => ~vres.is_valid

\* ------------------------------------------------------------------------
\* Properties of the repetition guard and the failure counter (Spec)
\* ------------------------------------------------------------------------
\* The step is a submission of command A right after submissions A, B of the
\* same task, A # B
ABAStep ==
    /\ prev_prev_call.cmd # NoCall
    /\ prev_call.cmd # prev_prev_call.cmd
    /\ prev_call'.cmd = prev_prev_call.cmd
    /\ prev_prev_call' = prev_call

\* The step rejects the submission as an oscillation: the tool is not
\* invoked and the guard forgets both commands and the streak
OscillationRejection ==
    /\ prev_call'.verdict = "oscillation"
    /\ result'.status = "oscillation"
    /\ pc' = "idle"
    /\ UNCHANGED <<tool_vars, channel_vars>>
    /\ last_call_message' = NoCall
    /\ last_last_call_message' = NoCall
    /\ same_tool_count' = 0

\* C14 as stated: whenever commands A, B, A (A # B) are submitted to the
\* guard in sequence, the third is rejected as an oscillation before any
\* validation and the guard's state is reset.
C14_ABAAlwaysRejected ==
    [][ABAStep => OscillationRejection]_vars

\* C14: when commands A, B, A (A # B) are submitted in sequence and the guard
\* passed the first two on to the tool, the third is rejected as an
\* oscillation before any validation, whether or not A is valid, and the
\* last command, the one before last and the streak are reset.
C14_ABARejectedAfterAdmitted ==
    [][ (ABAStep /\ prev_prev_call.verdict = "admitted"
                 /\ prev_call.verdict = "admitted")
        => OscillationRejection ]_vars

\* The third call of A, B, A was rejected although A is valid on the
\* snapshot the tool holds
C14_Witness ==
    /\ prev_call.verdict = "oscillation"
    /\ prev_prev_call.verdict = "admitted"
    /\ prev_prev_call.cmd # prev_call.cmd
    /\ result.status = "oscillation"
    /\ last_call_message = NoCall
    /\ last_last_call_message = NoCall
    /\ ValidateActionCommand(prev_call.cmd, init_scene_graph_data).is_valid

\* The step is a submission of the command submitted just before it
RepeatStep == run_len >= 1 /\ run_len' = run_len + 1

\* What the guard does with a command equal to the one before it: the
\* streak grows by one and the command goes to the tool, or the streak
\* reaches the threshold and the command is rejected and the streak reset
StreakRule ==
    /\ prev_call'.verdict \in {"admitted", "repeated_action"}
    /\ prev_call'.verdict = "repeated_action"
          <=> same_tool_count + 1 = MaxSameToolCount
    /\ prev_call'.verdict = "admitted"
          => same_tool_count' = same_tool_count + 1 /\ pc' = "execute"
    /\ prev_call'.verdict = "repeated_action"
          => /\ same_tool_count' = 0
             /\ result'.status = "repeated_action"
             /\ pc' = "idle"

\* C15 as stated: a command equal to the immediately preceding command
\* increments the streak by one and is rejected as a repeated action exactly
\* when the streak reaches 5; in every run of identical consecutive commands
\* the first five go to validation and the sixth is rejected.
C15_EveryRepeatCounts ==
    [][ /\ RepeatStep => StreakRule
        /\ run_len' \in 1..5 => prev_call'.verdict = "admitted"
        /\ run_len' = 6 => prev_call'.verdict = "repeated_action" ]_vars

\* C15: a command equal to the immediately preceding command, when that one
\* was passed on by the guard, increments the streak by one and is rejected
\* as a repeated action exactly when the streak reaches 5; in a run of
\* identical consecutive commands whose first command was passed on, the
\* first five go to validation and the sixth is rejected.
C15_RepeatAfterAdmittedCounts ==
    [][ /\ (RepeatStep /\ prev_call.verdict = "admitted") => StreakRule
        /\ (run_head_admitted' /\ run_len' \in 1..5)
              => prev_call'.verdict = "admitted"
        /\ (run_head_admitted' /\ run_len' = 6)
              => prev_call'.verdict = "repeated_action" ]_vars

\* The sixth identical command in a row was rejected as repeated
C15_Witness ==
    /\ run_len = 6
    /\ run_head_admitted
    /\ prev_call.verdict = "repeated_action"
    /\ result.status = "repeated_action"
    /\ same_tool_count = 0

\* C16: after a call whose command passes validation the streak is zero and
\* the last command is that command (the window was shifted).
C16_ValidationResetsStreak ==
    (pc = "publish") => (same_tool_count = 0 /\ last_call_message = query)

\* C17: five tool calls in a row answered validation_failed, with no
\* validation success in between, make the next call return task_failed;
\* so no more than five such calls ever follow one another.
C17_FiveFailuresThenTaskFailed ==
    failed_in_row <= MaxConsecutiveFailures

\* ------------------------------------------------------------------------
\* SpecO: the orchestration graph built by initialize and run by
\* process_user_input: get_initial_info, agent (_call_model) and
\* validate_execute (_call_validate_execute) with the two routing functions.
\* The planner's responses and the tool's answers are inputs.
\* ------------------------------------------------------------------------
MaxRounds == 3

MaxRuns == 2

ValidateAndExecuteAction == "ValidateAndExecuteAction"

GetSceneGraph == "GetSceneGraph"

\* A text is a sequence of lines (the chunks between commas and newlines)
\* and a line is a sequence of words
Message(type, name, content, tool_calls) ==
    [type |-> type, name |-> name, content |-> content, tool_calls |-> tool_calls]

ToolCall(name, args) == [name |-> name, args |-> args]

NoToolCall == ToolCall(None, NoCall)

\* str.startswith on the text's first words
StartsWith(content, word) ==
    Len(content) > 0 /\ Len(content[1]) > 0 /\ content[1][1] = word

\* the in operator on the text
Contains(content, word) ==
    \E i \in 1..Len(content) : \E j \in 1..Len(content[i]) : content[i][j] = word

\* DRAWER_ALIAS / _canonical_name of _parse_next_action_from_text
CanonicalName(name) ==
    CASE name = "drawer_high" -> DrawerHigh
      [] name = "drawer_middle" -> DrawerMiddle
      [] name = "drawer_low" -> DrawerLow
      [] OTHER -> name

\* [\w/-]+ of the two patterns
IsNameWord(word) == word \notin {"TASK_FAILED:", "Action:", "<think>", "</think>"}

\* re.sub of <think>...</think>: a line that is a think block is dropped
StripThink(content) ==
    SelectSeq(content, LAMBDA line : ~(Len(line) > 0 /\ line[1] = "<think>"))

\* open_close_pattern and move_pattern on one line, "Action:" optional
ParseLine(line) ==
    LET l == IF Len(line) > 0 /\ line[1] = "Action:" THEN Tail(line) ELSE line
    IN  IF Len(l) = 2 /\ l[1] \in {"open", "close"} /\ IsNameWord(l[2])
        THEN ToolCall(ValidateAndExecuteAction,
                      Cmd(l[1], None, None, CanonicalName(l[2])))
        ELSE IF Len(l) = 4 /\ l[1] \in {"move", "put", "Put"} /\ IsNameWord(l[2])
                /\ l[3] \in {"on", "in", "into", "to"} /\ IsNameWord(l[4])
        THEN ToolCall(ValidateAndExecuteAction,
                      Cmd("move", CanonicalName(l[2]), l[3], CanonicalName(l[4])))
        ELSE NoToolCall

\* _parse_next_action_from_text: the first line that is an action, or None
ParseNextActionFromText(content) ==
    LET lines == StripThink(content)
        hits == {i \in 1..Len(lines) : ParseLine(lines[i]) # NoToolCall}
    IN  IF hits = {} THEN NoToolCall ELSE ParseLine(lines[MinOf(hits)])

\* The query string of a tool call's arguments
QueryText(tool_args) ==
    IF tool_args.obj = None
    THEN <<tool_args.verb, tool_args.tgt>>
    ELSE <<tool_args.verb, tool_args.obj, tool_args.prep, tool_args.tgt>>

SceneGraphText == <<"Current scene graph:">>

\* Variant of the feedback text that words a timeout like a validation failure
BuildActionFeedbackTimeoutInvalid(status, tool_args) ==
    IF status \in {"validation_failed", "execution_timeout"}
    THEN << <<"The action '">> \o QueryText(tool_args)
               \o <<"' is invalid, reason:">>, SceneGraphText >>
    ELSE << <<"The previous action '">> \o QueryText(tool_args)
               \o <<"' was executed successfully.">>, SceneGraphText >>

\* _build_action_feedback_message on a tool answer of the given status
BuildActionFeedbackMessage(status, tool_args) ==
    CASE status = "execution_success" ->
           << <<"The previous action '">> \o QueryText(tool_args)
                 \o <<"' was executed successfully.">>, SceneGraphText >>
      [] status = "validation_failed" ->
           << <<"The action '">> \o QueryText(tool_args)
                 \o <<"' is invalid, reason:">>, SceneGraphText >>
      [] status = "task_failed" ->
           << <<"The action '">> \o QueryText(tool_args)
                 \o <<"' failed, reason:">>, SceneGraphText >>
      [] status = "execution_timeout" ->
           << <<"The action '">> \o QueryText(tool_args)
                 \o <<"' timed out waiting for completion signal.">>, SceneGraphText >>
      [] status = "execution_error" ->
           << <<"The action '">> \o QueryText(tool_args)
                 \o <<"' encountered an error:">>, SceneGraphText >>
      [] OTHER ->
           << <<"Action '">> \o QueryText(tool_args)
                 \o <<"' completed with status:">>, SceneGraphText >>

\* Variant of _should_execute_action that looks at the first tool call only
ShouldExecuteFirstCallOnly(last_message) ==
    IF Len(last_message.tool_calls) > 0
       /\ last_message.tool_calls[1].name = ValidateAndExecuteAction
    THEN "execute"
    ELSE "end"

\* _should_execute_action
ShouldExecuteAction(last_message) ==
    IF \E i \in 1..Len(last_message.tool_calls) :
          last_message.tool_calls[i].name = ValidateAndExecuteAction
    THEN "execute"
    ELSE "end"

\* Variant of _should_continue_after_execution without the test of the last
\* tool message
ShouldContinueUnlessMarked(msgs, rec) ==
    IF \E i \in 1..Len(msgs) : StartsWith(msgs[i].content, "TASK_FAILED:")
    THEN "end"
    ELSE IF rec.type = "call_validate_execute" /\ rec.task_failed
    THEN "end"
    ELSE "continue"

\* Variant of _should_continue_after_execution that never ends the run
ShouldAlwaysContinue(msgs, rec) == "continue"

\* _should_continue_after_execution.  The content of a tool message is a
\* feedback text or a failure text, never JSON, so json.loads raises and the
\* text test decides; the node returns no task_failed key, so
\* state.get("task_failed") is false.
ShouldContinueAfterExecution(msgs, rec) ==
    LET tool_msgs == {i \in 1..Len(msgs) : msgs[i].name = ValidateAndExecuteAction}
        last_tool == CHOOSE i \in tool_msgs : \A j \in tool_msgs : j <= i
    IN  IF \E i \in 1..Len(msgs) : StartsWith(msgs[i].content, "TASK_FAILED:")
        THEN "end"
        ELSE IF tool_msgs # {}
                /\ StartsWith(msgs[last_tool].content, "The action '")
                /\ Contains(msgs[last_tool].content, "' is invalid, reason:")
        THEN "end"
        ELSE IF rec.type = "call_validate_execute" /\ rec.task_failed
        THEN "end"
        ELSE "continue"

\* What the user types
UserInputs ==
    { << <<"tidy", "the", "table">> >>,
      << <<"TASK_FAILED:", "try", "again">> >> }

MoveA == Cmd("move", "red_cube1", "on", "table")

\* What self.llm.invoke returns: text alone or text with tool calls
PlannerResponses ==
    { Message("ai", None, << <<"move", "red_cube1", "on", "table">> >>, <<>>),
      Message("ai", None, << <<"<think>", "open", "lid_box", "</think>">>,
                             <<"Action:", "put", "red_cube1", "into", "drawer_low">> >>,
              <<>>),
      Message("ai", None, << <<"TASK_FAILED:", "blocked">>, <<"open", "lid_box">> >>,
              <<>>),
      Message("ai", None, << <<"The", "goal", "is", "reached">> >>, <<>>),
      Message("ai", None, << <<"<think>", "close", "lid_box", "</think>">> >>, <<>>),
      Message("ai", None, << <<"calling", "the", "tool">> >>,
              <<ToolCall(ValidateAndExecuteAction, MoveA)>>),
      Message("ai", None, << <<"open", "lid_box">> >>,
              <<ToolCall(GetSceneGraph, EmptyQuery)>>),
      Message("ai", None, << <<"calling", "two", "tools">> >>,
              <<ToolCall(GetSceneGraph, EmptyQuery),
                ToolCall(ValidateAndExecuteAction, MoveA)>>) }

\* The statuses of the tool's response envelope; "raised" is an exception
\* out of the tool's invoke
ToolAnswers ==
    {"execution_success", "validation_failed", "task_failed",
     "execution_timeout", "execution_error", "raised"}

exec_vars == <<trigger_received, pc, query, initial_scene_graph_data, elapsed,
               result, instruction, call_published, sig_in_window>>

InitO ==
    /\ ValidatorIdle
    /\ ros_available = TRUE
    /\ ProtocolInit

\* process_user_input: reset_validation_count, then agent.invoke on the
\* user's message
StartRunStep ==
    /\ node \in {"idle", "END", "aborted"}
    /\ runs < MaxRuns
    /\ \E user_input \in UserInputs :
          messages' = <<Message("human", None, user_input, <<>>)>>
    /\ validation_count' = 0
    /\ consecutive_failures' = 0
    /\ same_tool_count' = 0
    /\ last_call_message' = NoCall
    /\ last_last_call_message' = NoCall
    /\ last_record' = NoRecord
    /\ node' = "get_initial_info"
    /\ path' = <<>>
    /\ runs' = runs + 1
    /\ UNCHANGED <<vvars, hist_vars, ros_available, store_vars, exec_vars,
                   init_scene_graph_data, init_raw_data>>

StartRun == StartRunStep /\ UNCHANGED ext_vars

\* process_user_input: the next attempt of the retry loop, after the planner
\* service failed or after the attempt outlived the timeout and its worker
\* ran the graph to the end; agent.invoke on the same message, nothing is reset
RetryRunStep ==
    /\ node \in {"aborted", "END"}
    /\ runs < MaxRuns
    /\ messages' = <<messages[1]>>
    /\ node' = "get_initial_info"
    /\ path' = <<>>
    /\ runs' = runs + 1
    /\ UNCHANGED <<vvars, hist_vars, ros_available, store_vars, guard_vars,
                   tool_vars, exec_vars, last_record>>

RetryRun == RetryRunStep /\ UNCHANGED ext_vars

\* _get_initial_info
GetInitialInfoStep ==
    /\ node = "get_initial_info"
    /\ messages' = Append(messages, Message("human", None, <<SceneGraphText>>, <<>>))
    /\ last_record' = Record("get_initial_info", "none", FALSE)
    /\ node' = "agent"
    /\ path' = Append(path, "get_initial_info")
    /\ UNCHANGED <<vvars, hist_vars, ros_available, store_vars, guard_vars,
                   tool_vars, exec_vars, runs>>

GetInitialInfo == GetInitialInfoStep /\ UNCHANGED ext_vars

\* The message _call_model returns for the planner's response
ModelMessage(response) ==
    IF response.tool_calls = <<>>
       /\ ParseNextActionFromText(response.content) # NoToolCall
    THEN Message("ai", None, response.content,
                 <<ParseNextActionFromText(response.content)>>)
    ELSE response

PlannerRounds == Cardinality({i \in 1..Len(path) : path[i] = "agent"})

\* _call_model and the routing of _should_execute_action
CallModelStep(response) ==
    /\ node = "agent"
    /\ PlannerRounds < MaxRounds
    /\ messages' = Append(messages, ModelMessage(response))
    /\ last_record' = Record("call_model", "none", FALSE)
    /\ node' = IF ShouldExecuteAction(ModelMessage(response)) = "execute"
               THEN "validate_execute"
               ELSE "END"
    /\ path' = Append(path, "agent")
    /\ UNCHANGED <<vvars, hist_vars, ros_available, store_vars, guard_vars,
                   tool_vars, exec_vars, runs>>

CallModel(response) == CallModelStep(response) /\ UNCHANGED ext_vars

\* _call_model when self.llm.invoke raises: the run ends with the exception
PlannerFailsStep ==
    /\ node = "agent"
    /\ node' = "aborted"
    /\ UNCHANGED <<vvars, hist_vars, ros_available, store_vars, guard_vars,
                   tool_vars, exec_vars, messages, last_record, path, runs>>

PlannerFails == PlannerFailsStep /\ UNCHANGED ext_vars

\* Variant of the node's messages that words a rejection as a task failure
NodeOutputsRejectionMarked(verdict, tool_name, tool_args, status) ==
    IF verdict \in {"oscillation", "repeated_action"}
    THEN <<Message("human", None, << <<"TASK_FAILED:", "invalid, reason:">> >>, <<>>)>>
    ELSE IF tool_name # ValidateAndExecuteAction
    THEN <<>>
    ELSE IF status = "raised"
    THEN <<Message("tool", tool_name, << <<"tool call failed:">> >>, <<>>)>>
    ELSE <<Message("tool", tool_name, BuildActionFeedbackMessage(status, tool_args),
                   <<>>)>>
         \o (IF status = "task_failed"
             THEN <<Message("system", None,
                            << <<"If the user goal is not completed,",
                                 "please continue planning.">> >>, <<>>)>>
             ELSE <<>>)

\* The messages _call_validate_execute returns
NodeOutputs(verdict, tool_name, tool_args, status) ==
    IF verdict = "oscillation"
    THEN <<Message("human", None,
                   << <<"invalid, reason:", "is the same as the one before last.">> >>,
                   <<>>)>>
    ELSE IF verdict = "repeated_action"
    THEN <<Message("human", None, << <<"invalid, reason:", "was repeated.">> >>, <<>>)>>
    ELSE IF tool_name # ValidateAndExecuteAction
    THEN <<>>
    ELSE IF status = "raised"
    THEN <<Message("tool", tool_name, << <<"tool call failed:">> >>, <<>>)>>
    ELSE <<Message("tool", tool_name, BuildActionFeedbackMessage(status, tool_args),
                   <<>>)>>
         \o (IF status = "task_failed"
             THEN <<Message("system", None,
                            << <<"If the user goal is not completed,",
                                 "please continue planning.">> >>, <<>>)>>
             ELSE <<>>)

\* The execution record _call_validate_execute appends
NodeRecord(verdict, tool_name, status) ==
    IF verdict # "admitted"
    THEN Record("call_validate_execute", verdict, FALSE)
    ELSE IF tool_name # ValidateAndExecuteAction
    THEN Record("call_validate_execute", "none", FALSE)
    ELSE Record("call_validate_execute", status, status = "task_failed")

\* _call_validate_execute on the first tool call of the last message, the tool
\* answering with the given status, and the routing of
\* _should_continue_after_execution
CallValidateExecuteStep(status) ==
    /\ node = "validate_execute"
    /\ LET tool_call == messages[Len(messages)].tool_calls[1]
           tool_name == tool_call.name
           tool_args == tool_call.args
           verdict == GuardVerdict(tool_args)
           invoked == verdict = "admitted" /\ tool_name = ValidateAndExecuteAction
       IN  /\ invoked \/ status = "execution_success"
           /\ IF verdict = "oscillation"
              THEN /\ same_tool_count' = 0
                   /\ last_call_message' = NoCall
                   /\ last_last_call_message' = NoCall
              ELSE IF verdict = "repeated_action"
              THEN /\ same_tool_count' = 0
                   /\ last_call_message' = NoCall
                   /\ UNCHANGED last_last_call_message
              ELSE IF last_call_message # NoCall /\ tool_args = last_call_message
              THEN /\ same_tool_count' = same_tool_count + 1
                   /\ UNCHANGED <<last_call_message, last_last_call_message>>
              ELSE /\ same_tool_count' = 0
                   /\ last_last_call_message' = last_call_message
                   /\ last_call_message' = tool_args
           /\ messages' = messages \o NodeOutputs(verdict, tool_name, tool_args, status)
           /\ last_record' = NodeRecord(verdict, tool_name, status)
    /\ node' = IF ShouldContinueAfterExecution(messages', last_record') = "continue"
               THEN "agent"
               ELSE "END"
    /\ path' = Append(path, "validate_execute")
    /\ UNCHANGED <<vvars, hist_vars, ros_available, store_vars, runs>>

\* The node with the tool as an oracle: any answer, its counters left aside
CallValidateExecute(status) ==
    CallValidateExecuteStep(status) /\ UNCHANGED <<ext_vars, tool_vars, exec_vars>>

NextO ==
    \/ StartRun
    \/ RetryRun
    \/ GetInitialInfo
    \/ \E response \in PlannerResponses : CallModel(response)
    \/ PlannerFails
    \/ \E status \in ToolAnswers : CallValidateExecute(status)

SpecO == InitO /\ [][NextO]_vars

\* ------------------------------------------------------------------------
\* Properties of the orchestration graph (SpecO)
\* ------------------------------------------------------------------------
\* Some message of the run begins with the marker TASK_FAILED:
HasFailureMarker(msgs) ==
    \E i \in 1..Len(msgs) : StartsWith(msgs[i].content, "TASK_FAILED:")

\* A step of the validate_execute node
ValidateExecuteStep ==
    node = "validate_execute" /\ path' = Append(path, "validate_execute")

\* The step invoked the tool and the tool answered with the status
ToolAnswered(status) ==
    ValidateExecuteStep /\ last_record'.status = status

\* The step appended the feedback on the answer to the message history
OutcomeAppended(status) ==
    messages' = Append(messages,
                   Message("tool", ValidateAndExecuteAction,
                           BuildActionFeedbackMessage(status,
                               messages[Len(messages)].tool_calls[1].args),
                           <<>>))

\* A stopped run calls no further node; only a new agent.invoke follows
StoppedRunStaysStopped ==
    node = "END" => (node' = "END" \/ (node' = "get_initial_info" /\ path' = <<>>))

C19_TimeoutStops ==
    [][ToolAnswered("execution_timeout") => node' = "END"]_vars

\* C19 amended: a tool answer execution_timeout is not terminal; its feedback
\* is appended to the history and the run goes back to the planner, unless
\* some message of the history begins with TASK_FAILED:.
C19_TimeoutReplans ==
    [][ToolAnswered("execution_timeout")
          => /\ OutcomeAppended("execution_timeout")
             /\ node' = IF HasFailureMarker(messages) THEN "END" ELSE "agent"]_vars

\* The planner has been invoked again after a timeout feedback
C19_Witness ==
    /\ Len(path) >= 2
    /\ path[Len(path)] = "agent"
    /\ path[Len(path) - 1] = "validate_execute"
    /\ Len(messages) >= 2
    /\ messages[Len(messages) - 1].type = "tool"
    /\ Contains(messages[Len(messages) - 1].content,
                "' timed out waiting for completion signal.")

\* The run's path: get_initial_info first and only once, validate_execute
\* only right after agent
PathWellFormed ==
    /\ node \in {"agent", "validate_execute", "END", "aborted"} => Len(path) >= 1
    /\ path # <<>> => path[1] = "get_initial_info"
    /\ \A i \in 2..Len(path) :
          /\ path[i] # "get_initial_info"
          /\ path[i] = "validate_execute" => path[i - 1] = "agent"

\* The response carries a ValidateAndExecuteAction tool call
CarriesRequest(response) ==
    \E i \in 1..Len(response.tool_calls) :
       response.tool_calls[i].name = ValidateAndExecuteAction

\* The agent node ran on the response
PlanStep(response) ==
    /\ node = "agent"
    /\ path' = Append(path, "agent")
    /\ messages' = Append(messages, ModelMessage(response))

\* C20 as stated: get_initial_info runs exactly once, before the first agent
\* step; validate_execute is entered only from agent; after an agent step
\* the run goes to validate_execute iff the response carries a
\* ValidateAndExecuteAction call or its text parses into one, else it stops.
C20_ExecuteIffCarriesOrParses ==
    /\ []PathWellFormed
    /\ [][\A response \in PlannerResponses :
             PlanStep(response)
             => node' = IF CarriesRequest(response)
                           \/ ParseNextActionFromText(response.content) # NoToolCall
                        THEN "validate_execute"
                        ELSE "END"]_vars

\* C20 amended: as above, but the text is parsed only when the response
\* carries no tool call at all; a response that carries calls of other tools
\* only stops the run even if its text is an action.
C20_ExecuteIffCarriesOrBareTextParses ==
    /\ []PathWellFormed
    /\ [][\A response \in PlannerResponses :
             PlanStep(response)
             => node' = IF CarriesRequest(response)
                           \/ (response.tool_calls = <<>>
                               /\ ParseNextActionFromText(response.content) # NoToolCall)
                        THEN "validate_execute"
                        ELSE "END"]_vars

\* A run that went planner, tool, planner and then stopped on a response
\* without a request
C20_Witness ==
    /\ node = "END"
    /\ path = <<"get_initial_info", "agent", "validate_execute", "agent">>
    /\ ~CarriesRequest(messages[Len(messages)])

(***************************************************************************)
(* The task life cycle: process_user_input resets the guard memory, the   *)
(* tool's counters and the execution log; every node call of the task     *)
(* appends one record to the log.  The nodes are called in any order and   *)
(* the tool's answer is an input, constrained by the tool's counters.      *)
(***************************************************************************)

MaxTasks == 2

MaxRecords == 4

IsPrefix(s, t) == Len(s) <= Len(t) /\ SubSeq(t, 1, Len(s)) = s

KeepExecutionRecords(records) == records

ResetExecutionRecords(records) == <<>>

GuardMemoryEmpty ==
    /\ last_call_message = NoCall
    /\ last_last_call_message = NoCall
    /\ same_tool_count = 0

InitT ==
    /\ ValidatorIdle
    /\ ProtocolInit
    /\ ros_available = TRUE

StartTask ==
    /\ tasks < MaxTasks
    /\ validation_count' = 0
    /\ consecutive_failures' = 0
    /\ same_tool_count' = 0
    /\ last_call_message' = NoCall
    /\ last_last_call_message' = NoCall
    /\ execution_records' = ResetExecutionRecords(execution_records)
    /\ tasks' = tasks + 1
    /\ UNCHANGED <<vvars, hist_vars, orch_vars, ros_available, beyond_log,
                   store_vars, exec_vars,
                   init_scene_graph_data, init_raw_data>>

InitialInfoNode ==
    /\ tasks > 0
    /\ Len(execution_records) < MaxRecords
    /\ execution_records' = Append(execution_records,
                                   Record("get_initial_info", "none", FALSE))
    /\ UNCHANGED <<vvars, hist_vars, orch_vars, ros_available, beyond_log,
                   store_vars, exec_vars,
                   guard_vars, tool_vars, tasks>>

ModelNode ==
    /\ tasks > 0
    /\ Len(execution_records) < MaxRecords
    /\ execution_records' = Append(execution_records,
                                   Record("call_model", "none", FALSE))
    /\ UNCHANGED <<vvars, hist_vars, orch_vars, ros_available, beyond_log,
                   store_vars, exec_vars,
                   guard_vars, tool_vars, tasks>>

\* The tool's answer to an admitted call, by its counters
ToolAnswerAllowed(cmd, status) ==
    IF consecutive_failures >= MaxConsecutiveFailures THEN status = "task_failed"
    ELSE IF cmd = EmptyQuery THEN status = "validation_failed"
    ELSE status \in {"validation_failed", "execution_success", "execution_timeout",
                     "execution_error"}

ValidateExecuteNode(cmd, status) ==
    /\ tasks > 0
    /\ Len(execution_records) < MaxRecords
    /\ IF GuardVerdict(cmd) = "oscillation"
       THEN /\ same_tool_count' = 0
            /\ last_call_message' = NoCall
            /\ last_last_call_message' = NoCall
            /\ UNCHANGED tool_vars
       ELSE IF GuardVerdict(cmd) = "repeated_action"
       THEN /\ same_tool_count' = 0
            /\ last_call_message' = NoCall
            /\ UNCHANGED <<last_last_call_message, tool_vars>>
       ELSE /\ ToolAnswerAllowed(cmd, status)
            /\ IF last_call_message # NoCall /\ cmd = last_call_message
               THEN /\ same_tool_count' = same_tool_count + 1
                    /\ UNCHANGED <<last_call_message, last_last_call_message>>
               ELSE /\ same_tool_count' = 0
                    /\ last_last_call_message' = last_call_message
                    /\ last_call_message' = cmd
            /\ validation_count' = validation_count + 1
            /\ consecutive_failures' =
                  IF status = "validation_failed" /\ cmd # EmptyQuery
                  THEN consecutive_failures + 1
                  ELSE IF status = "validation_failed" THEN consecutive_failures
                  ELSE 0
            /\ UNCHANGED <<init_scene_graph_data, init_raw_data>>
    /\ execution_records' =
          Append(execution_records,
                 NodeRecord(GuardVerdict(cmd), ValidateAndExecuteAction, status))
    /\ UNCHANGED <<vvars, hist_vars, orch_vars, ros_available, beyond_log,
                   store_vars, exec_vars, tasks>>

NextT ==
    \/ StartTask
    \/ InitialInfoNode
    \/ ModelNode
    \/ \E cmd \in AgentCommands, status \in ToolAnswers \ {"raised"} :
          ValidateExecuteNode(cmd, status)

SpecT == InitT /\ [][NextT]_vars

\* C21: the step that starts a task leaves the guard memory empty, the
\* validation-call and consecutive-failure counters at 0 and the execution
\* log empty; every other step leaves the log as it was or appends to it.
C21_TaskStartsCleanLogAppendOnly ==
    [][IF tasks' # tasks
       THEN /\ GuardMemoryEmpty'
            /\ validation_count' = 0
            /\ consecutive_failures' = 0
            /\ execution_records' = <<>>
       ELSE IsPrefix(execution_records, execution_records')]_vars

\* A second task that has started and logged a planner step and a failed
\* validation, so that its counters and its log are no longer empty
C21_Witness ==
    /\ tasks = MaxTasks
    /\ Len(execution_records) >= 2
    /\ validation_count > 0
    /\ consecutive_failures > 0
    /\ execution_records[1].type = "call_model"

\* C23: a later call of a task validates its command against the snapshot
\* the store holds at that moment, so a snapshot accepted since the previous
\* call is the one validated against: each validation/execution cycle reads
\* its own snapshot from the store.
C23_LaterCallValidatesAgainstStore ==
    [][(pc = "execute" /\ validation_count >= 1 /\ pc' \in {"publish", "refresh"})
       => init_scene_graph_data' = current_scene_graph]_vars

(***************************************************************************)
(* The snapshot store: update_scene_graph on every kind of payload, the    *)
(* stability tracking it feeds while a caller waits, and the readers.      *)
(* The store's initial, empty dict is NoSG.                                *)
(***************************************************************************)

MaxUpdates == 6

StableFrameThreshold == 5

MaxHistorySize == 15

protocol_vars == <<vvars, hist_vars, orch_vars, ros_available, guard_vars, tool_vars,
                   exec_vars>>

\* {"nodes": [], "edges": []}
EmptyGraph == Scene({}, <<>>)

\* What "Nodes: 0, 1 / Edges: 0>1" converts to
LegacyScene == Scene(Plain({"0", "1"}), <<Edge("0", ">", "1")>>)

JsonNumber(n) == [kind |-> "number", n |-> n]

JsonList(items) == [kind |-> "list", items |-> items]

NoValue == [kind |-> "None"]

Text(form, value) == [type |-> "str", form |-> form, value |-> value]

DictPayload(value) == [type |-> "dict", form |-> "dict", value |-> value]

OtherTypePayload == [type |-> "other", form |-> "other", value |-> NoValue]

\* Python truth value of a parsed payload
Truthy(value) ==
    IF value = NoValue THEN FALSE
    ELSE IF value = NoSG THEN FALSE
    ELSE IF "kind" \in DOMAIN value
    THEN IF value.kind = "number" THEN value.n # 0 ELSE value.items # <<>>
    ELSE TRUE

ConvertLegacyTextFormat(text) ==
    IF text.form = "legacy" THEN text.value ELSE NoValue

ConvertTextToJsonFormat(text) ==
    IF text.form \in {"legacy", "legacy_no_nodes"}
    THEN ConvertLegacyTextFormat(text)
    ELSE EmptyGraph

ParseAndConvertSceneGraph(text) ==
    IF text.form = "blank" THEN NoValue
    ELSE IF text.form = "json" THEN text.value
    ELSE ConvertTextToJsonFormat(text)

StorePayloads ==
    {Text("blank", NoValue),
     Text("json", OnTableScene), Text("json", NoSG),
     Text("json", JsonNumber(0)), Text("json", JsonNumber(7)),
     Text("json", JsonList(<<>>)),
     Text("legacy", LegacyScene), Text("legacy_no_nodes", NoValue),
     Text("free", NoValue),
     DictPayload(OnTableScene), DictPayload(InBoxScene), DictPayload(NoSG),
     OtherTypePayload}

\* The payload is neither valid JSON nor the legacy text
Unrecognised(raw_data) ==
    raw_data.type = "str" /\ raw_data.form \in {"free", "legacy_no_nodes"}

ParsedData(raw_data) ==
    IF raw_data.type = "str" THEN ParseAndConvertSceneGraph(raw_data)
    ELSE raw_data.value

\* The variant that compares with the reference snapshot of the wait
CheckStabilityAgainstReference(new_scene_graph) ==
    IF scene_graph_history = <<>>
    THEN /\ scene_graph_history' = <<new_scene_graph>>
         /\ stable_frame_count' = 1
    ELSE IF last_scene_graph = new_scene_graph
    THEN /\ stable_frame_count' = stable_frame_count + 1
         /\ scene_graph_history' =
               IF Len(scene_graph_history) < MaxHistorySize
               THEN Append(scene_graph_history, new_scene_graph)
               ELSE scene_graph_history
    ELSE /\ stable_frame_count' = 1
         /\ scene_graph_history' = <<new_scene_graph>>

CheckStability(new_scene_graph) ==
    IF scene_graph_history = <<>>
    THEN /\ scene_graph_history' = <<new_scene_graph>>
         /\ stable_frame_count' = 1
    ELSE IF scene_graph_history[Len(scene_graph_history)] = new_scene_graph
    THEN /\ stable_frame_count' = stable_frame_count + 1
         /\ scene_graph_history' =
               IF Len(scene_graph_history) < MaxHistorySize
               THEN Append(scene_graph_history, new_scene_graph)
               ELSE scene_graph_history
    ELSE /\ stable_frame_count' = 1
         /\ scene_graph_history' = <<new_scene_graph>>

\* The object a reader holds stays allocated
HeldByReader(id) == handed # NoSnapshot /\ handed.ref = id

\* The variant that writes the new contents into the object the store names
WriteInPlace(value) ==
    [heap |-> [heap EXCEPT ![store_ref] = value], ref |-> store_ref]

\* self.current_scene_graph = parsed_data: the store names a new object; the
\* old one lives on only if a reader holds it
RebindSnapshot(value) ==
    LET id == CHOOSE i \in ObjectIds : ~HeldByReader(i)
    IN  [heap |-> [i \in ObjectIds |->
                     IF i = id THEN value
                     ELSE IF HeldByReader(i) THEN heap[i]
                     ELSE Unallocated],
         ref |-> id]

StoreUpdate(raw_data) ==
    /\ parse_success_count + parse_error_count < MaxUpdates
    /\ IF raw_data.type = "other"
       THEN UNCHANGED <<store_vars, count_vars, stable_frame_count, scene_graph_history,
                        heap, store_ref>>
       ELSE IF Truthy(ParsedData(raw_data))
       THEN /\ raw_msg' = ParsedData(raw_data)
            /\ current_scene_graph' = ParsedData(raw_data)
            /\ heap' = RebindSnapshot(ParsedData(raw_data)).heap
            /\ store_ref' = RebindSnapshot(ParsedData(raw_data)).ref
            /\ parse_success_count' = parse_success_count + 1
            /\ IF waiting_for_update
               THEN CheckStability(ParsedData(raw_data))
               ELSE UNCHANGED <<stable_frame_count, scene_graph_history>>
            /\ UNCHANGED parse_error_count
       ELSE /\ parse_error_count' = parse_error_count + 1
            /\ UNCHANGED <<store_vars, parse_success_count, stable_frame_count,
                           scene_graph_history, heap, store_ref>>
    /\ UNCHANGED <<waiting_for_update, last_scene_graph, handed>>
    /\ accepted_in_call' =
          IF raw_data.type = "other" \/ ~Truthy(ParsedData(raw_data))
          THEN accepted_in_call
          ELSE IF refresh_pc \in {"pump", "check", "sleep", "compare"}
          THEN "after_count_read"
          ELSE IF refresh_pc \in {"copy", "count"}
          THEN "before_count_read"
          ELSE accepted_in_call
    /\ frames_since_waiting' = IF waiting_for_update /\ Truthy(ParsedData(raw_data))
                                   /\ raw_data.type # "other"
                                THEN frames_since_waiting + 1
                                ELSE frames_since_waiting
    /\ UNCHANGED <<protocol_vars, beyond_store>>

StartWaitingForUpdate ==
    /\ waiting_for_update' = TRUE
    /\ stable_frame_count' = 0
    /\ scene_graph_history' = <<>>
    /\ last_scene_graph' = current_scene_graph
    /\ frames_since_waiting' = 0
    /\ UNCHANGED <<protocol_vars, beyond_store, store_vars, count_vars, heap_vars,
                   accepted_in_call>>

StopWaitingForUpdate ==
    /\ waiting_for_update
    /\ waiting_for_update' = FALSE
    /\ stable_frame_count' = 0
    /\ scene_graph_history' = <<>>
    /\ last_scene_graph' = NoSG
    /\ frames_since_waiting' = 0
    /\ UNCHANGED <<protocol_vars, beyond_store, store_vars, count_vars, heap_vars,
                   accepted_in_call>>

\* check_update_status()["is_stable"]
IsStable ==
    IF ~waiting_for_update THEN FALSE
    ELSE stable_frame_count >= StableFrameThreshold

NotAvailable == "Scene graph is not available yet. Please wait for the update."

HoldsNoObjects(scene_graph) == scene_graph \in {NoSG, EmptyGraph}

IsEmpty(scene_graph) == ~Truthy(scene_graph)

GetLatestSceneGraph ==
    IF IsEmpty(current_scene_graph) THEN NotAvailable ELSE "Current scene graph"

\* dict.copy() exists; a snapshot parsed from a JSON number has no copy()
HasCopy(value) == ~("kind" \in DOMAIN value /\ value.kind = "number")

\* get_current_scene_graph / get_current_raw_msg: the reader is handed
\* the message object and a shallow copy, whose node and edge lists are the
\* lists of the object the store names
GetCurrentRawMsg ==
    /\ HasCopy(heap[store_ref])
    /\ handed' = [ref |-> store_ref, seen |-> heap[store_ref]]
    /\ handed' # handed
    /\ UNCHANGED <<protocol_vars, beyond_store, store_vars, count_vars, stability_vars,
                   heap, store_ref, accepted_in_call>>

InitS ==
    /\ ValidatorIdle
    /\ ProtocolInit
    /\ ros_available = TRUE

NextS ==
    \/ \E raw_data \in StorePayloads : StoreUpdate(raw_data)
    \/ StartWaitingForUpdate
    \/ StopWaitingForUpdate
    \/ GetCurrentRawMsg

SpecS == InitS /\ [][NextS]_vars

\* C22: an update whose payload is neither valid JSON nor the legacy text is
\* dropped: the snapshot stays as it was, the parse-error counter goes up by
\* one and the success counter stays.
C22_UnrecognisedPayloadDropped ==
    [][\A raw_data \in StorePayloads :
          (Unrecognised(raw_data) /\ StoreUpdate(raw_data))
          => /\ UNCHANGED store_vars
             /\ parse_error_count' = parse_error_count + 1
             /\ parse_success_count' = parse_success_count]_vars

\* C26: while a caller waits, an accepted snapshot sets the stable-frame
\* counter to 1 when it is the first accepted since waiting began or differs
\* from the previously accepted one, and adds one when it is identical;
\* is_stable is reported exactly when the caller waits and the counter has
\* reached the threshold; while nobody waits an update leaves the counter.
C26_StableFrameCounter ==
    /\ [][parse_success_count' = parse_success_count + 1
          => stable_frame_count' =
                IF ~waiting_for_update THEN stable_frame_count
                ELSE IF frames_since_waiting = 0
                        \/ current_scene_graph' # current_scene_graph
                THEN 1
                ELSE stable_frame_count + 1]_vars
    /\ [](IsStable <=> (waiting_for_update
                        /\ stable_frame_count >= StableFrameThreshold))
    /\ [](~waiting_for_update => stable_frame_count = 0)

\* Five identical snapshots in a row accepted during one wait, after a
\* different one
C26_Witness ==
    /\ waiting_for_update
    /\ frames_since_waiting = StableFrameThreshold + 1
    /\ stable_frame_count = StableFrameThreshold
    /\ IsStable

\* C27: get_latest_scene_graph answers "not available" exactly when no
\* snapshot has been accepted so far, so that no update after the first
\* accepted one brings that answer back.
C27_NotAvailableIffNeverAccepted ==
    (GetLatestSceneGraph = NotAvailable) <=> (parse_success_count = 0)

\* The store after an accepted snapshot and two dropped payloads, the last
\* update having been dropped
C27_Witness ==
    /\ parse_success_count = 1
    /\ parse_error_count = 2
    /\ GetLatestSceneGraph # NotAvailable
    /\ current_scene_graph = EmptyGraph

\* C24: what a reader was handed by get_current_scene_graph or
\* get_current_raw_msg holds, after any later update_scene_graph calls,
\* what it held when it was handed out.
C24_HandedSnapshotNeverChanges ==
    /\ current_scene_graph = heap[store_ref]
    /\ handed # NoSnapshot => heap[handed.ref] = handed.seen

\* A reader holds the first accepted snapshot and the store has accepted two
\* different ones since
C24_Witness ==
    /\ handed # NoSnapshot
    /\ handed.seen = OnTableScene
    /\ handed.ref # store_ref
    /\ parse_success_count = 3
    /\ current_scene_graph = InBoxScene

(***************************************************************************)
(* force_refresh_from_ros: the calling thread pumps the bus up to ten      *)
(* times while the executor thread of the bus may deliver a payload to     *)
(* update_scene_graph between any two of its steps.                        *)
(***************************************************************************)

RefreshAttempts == 10

\* What the caller supplies: an agent, a ros_manager, an agent object
\* without spin_once, or neither
PumpSources == {"agent", "ros_manager", "no_spin_once", "none"}

RefreshPayloads ==
    {DictPayload(OnTableScene), DictPayload(InBoxScene), Text("blank", NoValue)}

store_frozen == <<protocol_vars, log_vars, plan_vars, late_vars, stability_vars, heap_vars,
                  store_vars, count_vars, accepted_in_call>>

\* The variant that counts attempts from 0 to 10 inclusive
LoopEndsInclusive(i) == i > RefreshAttempts

\* for i in range(refresh_attempts)
LoopEnds(i) == i >= RefreshAttempts

RefreshCall(source) ==
    /\ refresh_pc \in {"idle", "done"}
    /\ pump_source' = source
    /\ refresh_i' = 0
    /\ pumps' = 0
    /\ late_pumps' = 0
    /\ accepted_in_call' = "none"
    /\ IF source = "none"
       THEN /\ refreshed' = FALSE
            /\ refresh_pc' = "done"
       ELSE /\ refresh_pc' = "copy"
            /\ UNCHANGED refreshed
    /\ UNCHANGED <<protocol_vars, log_vars, plan_vars, late_vars, stability_vars, heap_vars,
                   store_vars, count_vars, old_scene_graph, old_parse_count>>

CopyOldSceneGraph ==
    /\ refresh_pc = "copy"
    /\ old_scene_graph' = current_scene_graph
    /\ refresh_pc' = "count"
    /\ UNCHANGED <<store_frozen, pump_source, refresh_i, old_parse_count, refreshed,
                   pumps, late_pumps>>

ReadOldParseCount ==
    /\ refresh_pc = "count"
    /\ old_parse_count' = parse_success_count
    /\ refresh_pc' = IF LoopEnds(refresh_i) THEN "compare" ELSE "pump"
    /\ UNCHANGED <<store_frozen, pump_source, refresh_i, old_scene_graph, refreshed,
                   pumps, late_pumps>>

Pump ==
    /\ refresh_pc = "pump"
    /\ IF pump_source \in {"agent", "ros_manager"}
       THEN /\ pumps' = pumps + 1
            /\ late_pumps' = IF accepted_in_call = "after_count_read"
                             THEN late_pumps + 1
                             ELSE late_pumps
       ELSE UNCHANGED <<pumps, late_pumps>>
    /\ refresh_pc' = "check"
    /\ UNCHANGED <<store_frozen, pump_source, refresh_i, old_scene_graph,
                   old_parse_count, refreshed>>

CheckParseCount ==
    /\ refresh_pc = "check"
    /\ refresh_pc' = IF parse_success_count > old_parse_count THEN "compare" ELSE "sleep"
    /\ UNCHANGED <<store_frozen, pump_source, refresh_i, old_scene_graph,
                   old_parse_count, refreshed, pumps, late_pumps>>

RefreshSleep ==
    /\ refresh_pc = "sleep"
    /\ refresh_i' = refresh_i + 1
    /\ refresh_pc' = IF LoopEnds(refresh_i') THEN "compare" ELSE "pump"
    /\ UNCHANGED <<store_frozen, pump_source, old_scene_graph, old_parse_count,
                   refreshed, pumps, late_pumps>>

CompareAndReturn ==
    /\ refresh_pc = "compare"
    /\ refreshed' = (current_scene_graph # old_scene_graph
                     \/ parse_success_count > old_parse_count)
    /\ refresh_pc' = "done"
    /\ UNCHANGED <<store_frozen, pump_source, refresh_i, old_scene_graph,
                   old_parse_count, pumps, late_pumps>>

RefreshThread ==
    \/ CopyOldSceneGraph
    \/ ReadOldParseCount
    \/ Pump
    \/ CheckParseCount
    \/ RefreshSleep
    \/ CompareAndReturn

InitR ==
    /\ ValidatorIdle
    /\ ProtocolInit
    /\ ros_available = TRUE

NextR ==
    \/ \E source \in PumpSources : RefreshCall(source)
    \/ RefreshThread
    \/ \E raw_data \in RefreshPayloads : StoreUpdate(raw_data)

SpecR == InitR /\ [][NextR]_vars /\ WF_vars(RefreshThread)

\* The step at which a call that was given a pump source returns
Returns == refresh_pc = "compare" /\ refresh_pc' = "done"

\* C25: the call pumps at most ten times and never once a snapshot has been
\* accepted during it, it always returns, it returns true exactly when the
\* snapshot at its return differs from the one at its entry or a snapshot
\* was accepted during it, and with neither pump source it pumps zero times
\* and returns false.
C25_PumpsUntilAccepted ==
    /\ [](pumps <= RefreshAttempts)
    /\ [][pumps' = pumps + 1 => accepted_in_call = "none"]_vars
    /\ [](refresh_pc # "idle" => <>(refresh_pc = "done"))
    /\ [][Returns => (refreshed' <=> (current_scene_graph # old_scene_graph
                                      \/ accepted_in_call # "none"))]_vars
    /\ [](refresh_pc = "done" /\ pump_source = "none" => pumps = 0 /\ ~refreshed)

\* C25 amended: as above, but a snapshot the bus thread gets accepted after
\* the call has read the success counter is seen at the call's next check,
\* after at most one more pump, and one accepted before that read counts
\* for nothing unless it changed the snapshot the call had copied.
C25_PumpsUntilAcceptanceSeen ==
    /\ [](pumps <= RefreshAttempts)
    /\ [](late_pumps <= 1)
    /\ [][pumps' = pumps + 1 /\ accepted_in_call = "after_count_read"
          => late_pumps = 0]_vars
    /\ [](refresh_pc # "idle" => <>(refresh_pc = "done"))
    /\ [][Returns => (refreshed' <=> (current_scene_graph # old_scene_graph
                                      \/ accepted_in_call = "after_count_read"))]_vars
    /\ [](refresh_pc = "done" /\ pump_source = "none" => pumps = 0 /\ ~refreshed)

\* A call that pumped three times, the third time after the bus thread had
\* a snapshot accepted during the call's sleep, and returned true
C25_Witness ==
    /\ refresh_pc = "done"
    /\ pumps = 3
    /\ late_pumps = 1
    /\ refreshed

(***************************************************************************)
(* The planning step on one planner response and the tool's parse of the   *)
(* command it hands on.  The response text is a sequence of tokens: words, *)
(* the separators "," and "\n", and the tags of a reasoning block.         *)
(***************************************************************************)

Separators == {",", "\n"}

RECURSIVE RemoveThinkBlocks(_)
\* re.sub(r"<think>.*?</think>", "", text, flags=re.DOTALL): a block runs
\* from an opening tag to the nearest closing tag after it
RemoveThinkBlocks(text) ==
    IF text = <<>> THEN <<>>
    ELSE IF Head(text) = "<think>" /\ \E j \in 2..Len(text) : text[j] = "</think>"
    THEN RemoveThinkBlocks(
            SubSeq(text, MinOf({j \in 2..Len(text) : text[j] = "</think>"}) + 1,
                   Len(text)))
    ELSE <<Head(text)>> \o RemoveThinkBlocks(Tail(text))

RECURSIVE SplitFrom(_, _)
SplitFrom(text, line) ==
    IF text = <<>> THEN (IF line = <<>> THEN <<>> ELSE <<line>>)
    ELSE IF Head(text) \in Separators
    THEN (IF line = <<>> THEN <<>> ELSE <<line>>) \o SplitFrom(Tail(text), <<>>)
    ELSE SplitFrom(Tail(text), Append(line, Head(text)))

\* potential_actions: the non-empty lines of the chunks between commas
SplitCandidates(text) == SplitFrom(text, <<>>)

RECURSIVE DropTrailingDots(_)
\* [\s\.]*$ of the two patterns
DropTrailingDots(line) ==
    IF line # <<>> /\ line[Len(line)] = "."
    THEN DropTrailingDots(SubSeq(line, 1, Len(line) - 1))
    ELSE line

ParseCandidate(line) == ParseLine(DropTrailingDots(line))

RECURSIVE LastAction(_)
\* The variant that keeps the last candidate that is an action
LastAction(candidates) ==
    IF candidates = <<>> THEN NoToolCall
    ELSE IF LastAction(Tail(candidates)) # NoToolCall
    THEN LastAction(Tail(candidates))
    ELSE ParseCandidate(Head(candidates))

RECURSIVE FirstAction(_)
\* for action_text in potential_actions: return at the first match
FirstAction(candidates) ==
    IF candidates = <<>> THEN NoToolCall
    ELSE IF ParseCandidate(Head(candidates)) # NoToolCall
    THEN ParseCandidate(Head(candidates))
    ELSE FirstAction(Tail(candidates))

\* _parse_next_action_from_text on a text of tokens
ParseNextAction(text) == FirstAction(SplitCandidates(RemoveThinkBlocks(text)))

NumberedMove == <<"5.", "move", "red_cube1", "on", "table">>

NumberedWrappedMove ==
    <<"5.", "validateAndExecuteAction(\"", "move", "red_cube1", "on", "table", "\")">>

Pieces ==
    {<<"move", "red_cube1", "on", "table">>,
     <<"open", "drawer_low">>,
     <<"Action:", "put", "red_cube1", "into", "drawer_high">>,
     <<"move", "drawer_middle", "to", "drawer_low", ".">>,
     <<"The", "goal", "is", "reached">>,
     NumberedMove,
     NumberedWrappedMove,
     <<"<think>", "close", "lid_box", "</think>">>,
     <<"<think>", "open", "lid_box">>,
     <<"close", "lid_box", "</think>">>}

PlannerTexts ==
    Pieces \cup {p \o <<sep>> \o q : p \in Pieces, sep \in Separators, q \in Pieces}

DrawerShorthands == {"drawer_high", "drawer_middle", "drawer_low"}

\* Responses that carry tool calls: the command is the call's query
StructuredResponses ==
    {Message("ai", None, <<"calling", "the", "tool">>, <<ToolCall(ValidateAndExecuteAction, cmd)>>) :
        cmd \in {MoveA, Cmd("open", None, None, "drawer_low"),
                 Cmd("close", None, None, DrawerHigh),
                 Cmd("move", "red_cube1", "into", "drawer_middle"),
                 Cmd("move", "drawer_high", "on", "table")}}
    \cup {Message("ai", None, <<"open", "drawer_low">>,
                  <<ToolCall(GetSceneGraph, EmptyQuery)>>),
          Message("ai", None, <<"calling", "two", "tools">>,
                  <<ToolCall(GetSceneGraph, EmptyQuery),
                    ToolCall(ValidateAndExecuteAction, MoveA)>>)}

TextResponses == {Message("ai", None, text, <<>>) : text \in PlannerTexts}

InitP ==
    /\ ValidatorIdle
    /\ ros_available = TRUE
    /\ ProtocolInit

LlmInvoke ==
    /\ ppc = "idle"
    /\ llm_response' \in TextResponses \cup StructuredResponses
    /\ ppc' = "plan"
    /\ UNCHANGED <<protocol_vars, store_vars, beyond_plan, planned, lookup_cmd>>

PlanningStep ==
    /\ ppc = "plan"
    /\ planned' = IF llm_response.tool_calls = <<>>
                     /\ ParseNextAction(llm_response.content) # NoToolCall
                  THEN Message("ai", None, llm_response.content,
                               <<ParseNextAction(llm_response.content)>>)
                  ELSE llm_response
    /\ ppc' = "route"
    /\ UNCHANGED <<protocol_vars, store_vars, beyond_plan, llm_response, lookup_cmd>>

RouteStep ==
    /\ ppc = "route"
    /\ ppc' = IF ShouldExecuteAction(planned) = "execute" THEN "validate_execute"
              ELSE "END"
    /\ UNCHANGED <<protocol_vars, store_vars, beyond_plan, llm_response, planned, lookup_cmd>>

\* The node hands the first call's query to the tool, whose validator
\* parses it before its lookups
ToolParseStep ==
    /\ ppc = "validate_execute"
    /\ IF planned.tool_calls[1].name = ValidateAndExecuteAction
       THEN /\ lookup_cmd' = ParseFlexibleActionCommand(planned.tool_calls[1].args)
            /\ ppc' = "lookups"
       ELSE /\ ppc' = "no_tool"
            /\ UNCHANGED lookup_cmd
    /\ UNCHANGED <<protocol_vars, store_vars, beyond_plan, llm_response, planned>>

NextP ==
    \/ LlmInvoke
    \/ PlanningStep
    \/ RouteStep
    \/ ToolParseStep

SpecP == InitP /\ [][NextP]_vars

\* The names the validator looks up for a parsed command
LookupNames(action) ==
    IF action.action_type \in {"open", "close"} THEN {action.target_object}
    ELSE IF action.action_type = "move"
    THEN {action.source_object, action.target_location}
    ELSE {}

\* C28: every command that reaches the validator's lookups, from a free
\* text or from a structured tool invocation, has the drawer shorthands
\* rewritten to the canonical names, as object and as target, and
\* canonicalization is idempotent.
C28_ShorthandsRewrittenBeforeLookups ==
    /\ ppc = "lookups" => LookupNames(lookup_cmd) \cap DrawerShorthands = {}
    /\ \A name \in DrawerShorthands \cup Drawers \cup {"red_cube1", Table} :
          CanonicalName(CanonicalName(name)) = CanonicalName(name)

Planned == ppc \notin {"idle", "plan"}

Candidates == SplitCandidates(RemoveThinkBlocks(llm_response.content))

RECURSIVE Flatten(_)
Flatten(lines) == IF lines = <<>> THEN <<>> ELSE Head(lines) \o Flatten(Tail(lines))

\* Token i of the text lies in a closed reasoning block
InsideBlock(text, i) ==
    \E a \in 1..i, b \in i..Len(text) :
       /\ text[a] = "<think>"
       /\ text[b] = "</think>"
       /\ a < b
       /\ \A k \in a..(i - 1) : text[k] # "</think>"

RECURSIVE OutsideFrom(_, _)
OutsideFrom(text, i) ==
    IF i > Len(text) THEN <<>>
    ELSE (IF InsideBlock(text, i) \/ text[i] \in Separators THEN <<>> ELSE <<text[i]>>)
         \o OutsideFrom(text, i + 1)

\* The words of the text outside the closed reasoning blocks
OutsideBlocks(text) == OutsideFrom(text, 1)

\* C29: for a response without tool calls the planning step drops the
\* reasoning blocks, takes the runs of tokens between commas and newlines
\* as the candidates in their order, and hands on the action of the first
\* candidate that matches a pattern, whatever follows it; it hands on
\* nothing exactly when no candidate matches, and then the run stops.
C29_FirstMatchingCandidate ==
    (Planned /\ llm_response.tool_calls = <<>>)
    => /\ Flatten(Candidates) = OutsideBlocks(llm_response.content)
       /\ \A i \in 1..Len(Candidates) :
             /\ Candidates[i] # <<>>
             /\ \A k \in 1..Len(Candidates[i]) : Candidates[i][k] \notin Separators
       /\ (planned.tool_calls = <<>>)
            <=> (\A i \in 1..Len(Candidates) : ParseCandidate(Candidates[i]) = NoToolCall)
       /\ planned.tool_calls # <<>>
            => /\ Len(planned.tool_calls) = 1
               /\ \E i \in 1..Len(Candidates) :
                     /\ planned.tool_calls[1] = ParseCandidate(Candidates[i])
                     /\ planned.tool_calls[1] # NoToolCall
                     /\ \A j \in 1..(i - 1) : ParseCandidate(Candidates[j]) = NoToolCall
       /\ (planned.tool_calls = <<>> /\ ppc # "route") => ppc = "END"

\* A text of two actions separated by a comma, the first of which went to
\* the tool
C29_Witness ==
    /\ ppc = "lookups"
    /\ llm_response.content = <<"open", "drawer_low", ",", "move", "red_cube1", "on", "table">>
    /\ planned.tool_calls = <<ToolCall(ValidateAndExecuteAction,
                                       Cmd("open", None, None, DrawerLow))>>

\* The response's action is a numbered line: no candidate is an action as
\* it stands and one is the numbered move, plain or wrapped
NumberedAction ==
    /\ llm_response.tool_calls = <<>>
    /\ \A i \in 1..Len(Candidates) : ParseCandidate(Candidates[i]) = NoToolCall
    /\ \E i \in 1..Len(Candidates) : Candidates[i] \in {NumberedMove, NumberedWrappedMove}

\* C30: a response whose actionable line is a numbered list item, with the
\* action plain or wrapped in validateAndExecuteAction("..."), is recognized
\* by the planning step as that action and goes on to ValidateAndExecute.
C30_NumberedLineRecognised ==
    (Planned /\ NumberedAction)
    => /\ planned.tool_calls = <<ToolCall(ValidateAndExecuteAction, MoveA)>>
       /\ ppc # "END"

\* ------------------------------------------------------------------------
\* Further properties of the repetition guard (Spec)
\* ------------------------------------------------------------------------
\* The step submits a command right after a submission that the guard
\* rejected as a repeated action
AfterRepeatRejection ==
    /\ prev_call.verdict = "repeated_action"
    /\ prev_prev_call' = prev_call

\* C31: after a 'repeated action' rejection the streak is 0 and both the
\* last command and the one before last are unset, so the next command is
\* rejected neither as an oscillation nor as a repeat.
C31_RepeatRejectionResetsAll ==
    [][ /\ prev_call'.verdict = "repeated_action"
           => /\ same_tool_count' = 0
              /\ last_call_message' = NoCall
              /\ last_last_call_message' = NoCall
        /\ AfterRepeatRejection => prev_call'.verdict = "admitted" ]_vars

\* The step rejects a submission as an oscillation
OscillationStep ==
    /\ prev_prev_call' = prev_call
    /\ prev_call'.verdict = "oscillation"
    /\ result'.status = "oscillation"

\* C33: a command is rejected as an oscillation only if it is the command
\* submitted exactly two calls earlier in the same task; the fourth call of
\* A, B, B, A is not rejected as an oscillation.
C33_OscillationOnlyTwoCallsEarlier ==
    [][OscillationStep => prev_call'.cmd = prev_prev_call.cmd]_vars

\* ------------------------------------------------------------------------
\* The sub-check flags of a validated move (SpecV)
\* ------------------------------------------------------------------------
\* C40: in every result of validating a move the sub-check flags are
\* monotone in check order (action_valid implies target_accessible implies
\* source_movable implies objects_exist), and is_valid is true iff all four
\* flags are true.
C40_FlagsMonotone ==
    ValidatedMove =>
        LET d == vres.validation_details
        IN  /\ d.action_valid => d.target_accessible
            /\ d.target_accessible => d.source_movable
            /\ d.source_movable => d.objects_exist
            /\ vres.is_valid <=> /\ d.objects_exist
                                 /\ d.source_movable
                                 /\ d.target_accessible
                                 /\ d.action_valid

\* A move rejected at the target checks: the first two flags are set, the
\* last two are not
C40_Witness ==
    /\ ValidatedMove
    /\ ~vres.is_valid
    /\ vres.validation_details.source_movable
    /\ ~vres.validation_details.target_accessible
    /\ vres.kind = "ClosedContainer"

\* ------------------------------------------------------------------------
\* What decides the status of an execution (Spec)
\* ------------------------------------------------------------------------
\* The wait loop sees the flag set before the deadline
SignalObserved == pc = "wait" /\ pc' = "settle"

\* The control thread leaves the settle step: the store has been re-read and
\* _format_success_response called
Settled == pc = "settle" /\ pc' # "settle"

\* The call's status becomes execution_success
BecomesSuccess ==
    result'.status = "execution_success" /\ result.status # "execution_success"

\* C37 as stated: execute returns execution_success iff a true completion
\* signal is observed by the wait loop before the deadline, whatever the
\* scene graph holds.
C37_SuccessIffSignalObserved ==
    [][ /\ Settled => (pc' = "finally" /\ BecomesSuccess)
        /\ BecomesSuccess => Settled ]_vars

\* C37: execute returns execution_success iff the wait loop observes a true
\* completion signal before the deadline and the success response can be
\* built, i.e. the snapshot read after the signal has a node list; with or
\* without a change of the scene graph.  When the snapshot's nodes are null
\* the call returns execution_error.
C37_SuccessIffObservedAndFormatted ==
    [][ /\ Settled
           => IF FormatSuccessRaises(initial_scene_graph_data, current_scene_graph)
              THEN pc' = "except" /\ result' = result
              ELSE pc' = "finally" /\ BecomesSuccess
        /\ (pc = "except" /\ pc' # "except") => result'.status = "execution_error"
        /\ BecomesSuccess => Settled
        /\ (pc' = "settle" /\ pc # "settle") => SignalObserved ]_vars

\* A call that returned execution_success although the snapshot after the
\* execution equals the one before it and lacks the edge the command asked for
C37_Witness ==
    /\ pc = "finally"
    /\ result.status = "execution_success"
    /\ ~result.change_analysis.has_changes
    /\ result.scene_graph = initial_scene_graph_data
    /\ query.verb = "move"
    /\ Edge(query.obj, query.prep, query.tgt) \notin SeqToSet(result.scene_graph.edges)

(***************************************************************************)
(* SpecE: the execution protocol with the completion signals counted.  The *)
(* planner submits one command, the bus delivers snapshots, and every      *)
(* message on /agent_trigger is recorded with its data.                    *)
(***************************************************************************)

\* Messages on /agent_trigger that are followed
MaxSignals == 3

SignalledCommand == Cmd("move", "red_cube1", "in", "red_box")

\* _agent_trigger_callback on the executor thread, the message recorded
SignalArrives(data) ==
    /\ trigger_msgs < MaxSignals
    /\ TriggerCallback(data)
    /\ trigger_msgs' = trigger_msgs + 1
    /\ last_trigger' = data
    /\ UNCHANGED <<log_vars, store_ext, refresh_vars, plan_vars, run_vars, pair_vars,
                   input_vars, queue_vars>>

InitE ==
    /\ ValidatorIdle
    /\ ros_available = TRUE
    /\ ProtocolInit

NextE ==
    \/ AgentCall(SignalledCommand)
    \/ ProcessUserInput
    \/ ControlThread
    \/ \E data \in BOOLEAN : SignalArrives(data)
    \/ \E parsed_data \in BusScenes : UpdateSceneGraph(parsed_data)

SpecE == InitE /\ [][NextE]_vars

\* C36: a completion signal only affects the execution in progress: a
\* message with value false never sets the completion flag, the flag is
\* clear when a wait starts whatever was delivered before, and a call
\* returns execution_success only if a true signal was delivered after its
\* publish, so a true signal delivered while the coordinator was idle never
\* makes the later execution succeed.
C36_SignalAffectsOnlyCurrentExecution ==
    [][ /\ (trigger_msgs' # trigger_msgs /\ ~last_trigger')
           => trigger_received' = trigger_received
        /\ (pc = "clear_flag" /\ pc' = "wait") => ~trigger_received'
        /\ BecomesSuccess => sig_in_window ]_vars

\* A wait that has just started with the flag clear, although the only
\* message so far carried true and was delivered before the publish
C36_Witness ==
    /\ pc = "wait"
    /\ elapsed = 0
    /\ trigger_msgs = 1
    /\ last_trigger
    /\ ~sig_in_window
    /\ ~trigger_received


(***************************************************************************)
(* The orchestration graph together with the tool's counters and the       *)
(* execution log: the attempts of one process_user_input call, the tool    *)
(* answering as its counters allow.                                        *)
(***************************************************************************)
beyond_run == <<tasks, store_ext, refresh_vars, plan_vars, signal_vars, pair_vars,
                input_vars, queue_vars>>

\* The statuses with which execute returns after it published the command;
\* execution_error is returned from before or from after the publication
PublishedStatuses == {"execution_success", "execution_timeout"}

\* The planner's responses in these runs: a tool call, a text that parses to
\* another command, a failure marker followed by a command, a final answer
CountedResponses ==
    { Message("ai", None, << <<"calling", "the", "tool">> >>,
              <<ToolCall(ValidateAndExecuteAction, MoveA)>>),
      Message("ai", None, << <<"<think>", "open", "lid_box", "</think>">>,
                             <<"Action:", "put", "red_cube1", "into", "drawer_low">> >>,
              <<>>),
      Message("ai", None, << <<"TASK_FAILED:", "blocked">>, <<"open", "lid_box">> >>,
              <<>>),
      Message("ai", None, << <<"The", "goal", "is", "reached">> >>, <<>>) }

InitG ==
    /\ ValidatorIdle
    /\ ros_available = TRUE
    /\ ProtocolInit

\* process_user_input up to the first agent.invoke: reset_validation_count
\* and _reset_execution_records
StartCountedRun ==
    /\ StartRunStep
    /\ execution_records' = ResetExecutionRecords(execution_records)
    /\ failures_at_start' = 0
    /\ UNCHANGED beyond_run

\* The next agent.invoke of the retry loop: counters, guard memory and log
\* are those the previous attempt left
RetryCountedRun ==
    /\ RetryRunStep
    /\ failures_at_start' = consecutive_failures
    /\ UNCHANGED <<execution_records, beyond_run>>

InitialInfoLogged ==
    /\ GetInitialInfoStep
    /\ execution_records' = Append(execution_records, last_record')
    /\ UNCHANGED <<failures_at_start, beyond_run>>

ModelLogged(response) ==
    /\ CallModelStep(response)
    /\ execution_records' = Append(execution_records, last_record')
    /\ UNCHANGED <<failures_at_start, beyond_run>>

PlannerFailsInRun ==
    /\ PlannerFailsStep
    /\ UNCHANGED <<execution_records, failures_at_start, beyond_run>>

\* _call_validate_execute with the tool's execute behind it: a rejected or
\* foreign call leaves the tool alone; an invoked call counts, answers as
\* the counters allow, takes the initial snapshot on the first call of the
\* task and publishes the command when validation passed
CountedValidateExecute(status) ==
    /\ CallValidateExecuteStep(status)
    /\ LET tool_call == messages[Len(messages)].tool_calls[1]
           tool_args == tool_call.args
           invoked == GuardVerdict(tool_args) = "admitted"
                      /\ tool_call.name = ValidateAndExecuteAction
       IN  IF ~invoked
           THEN UNCHANGED <<tool_vars, instruction, call_published>>
           ELSE /\ ToolAnswerAllowed(tool_args, status)
                /\ validation_count' = validation_count + 1
                /\ consecutive_failures' =
                      IF status = "validation_failed" /\ tool_args # EmptyQuery
                      THEN consecutive_failures + 1
                      ELSE IF status = "validation_failed" THEN consecutive_failures
                      ELSE 0
                /\ IF status # "task_failed" /\ validation_count' = 1
                   THEN /\ init_scene_graph_data' = current_scene_graph
                        /\ init_raw_data' = raw_msg
                   ELSE UNCHANGED <<init_scene_graph_data, init_raw_data>>
                /\ \E published \in BOOLEAN :
                      /\ status \in PublishedStatuses => published
                      /\ status \in RejectedStatuses => ~published
                      /\ call_published' = published
                      /\ instruction' = IF published THEN tool_args ELSE instruction
    /\ execution_records' = Append(execution_records, last_record')
    /\ UNCHANGED <<trigger_received, pc, query, initial_scene_graph_data, elapsed,
                   result, sig_in_window, failures_at_start, beyond_run>>

NextG ==
    \/ StartCountedRun
    \/ RetryCountedRun
    \/ InitialInfoLogged
    \/ \E response \in CountedResponses : ModelLogged(response)
    \/ PlannerFailsInRun
    \/ \E status \in ToolAnswers \ {"raised"} : CountedValidateExecute(status)

SpecG == InitG /\ [][NextG]_vars


GuardRejects ==
    ValidateExecuteStep /\ last_record'.status \in {"oscillation", "repeated_action"}

\* The tool was not invoked and one record was appended
ToolUntouchedOneRecord ==
    /\ UNCHANGED <<validation_count, consecutive_failures, init_scene_graph_data,
                   init_raw_data, instruction, call_published>>
    /\ Len(execution_records') = Len(execution_records) + 1
    /\ SubSeq(execution_records', 1, Len(execution_records)) = execution_records
    /\ execution_records'[Len(execution_records')].type = "call_validate_execute"

\* C34 as stated: an oscillation or repeated-action rejection does not
\* invoke the tool (its counters are unchanged, nothing is published),
\* appends exactly one execution record, and the run goes back to the
\* planner rather than stopping.
C34_RejectionReplans ==
    [][GuardRejects => (ToolUntouchedOneRecord /\ node' = "agent")]_vars

\* C34 amended: an oscillation or repeated-action rejection does not invoke
\* the tool (its counters are unchanged, nothing is published) and appends
\* exactly one execution record; the run then goes back to the planner
\* unless some message of the history begins with TASK_FAILED:, in which
\* case it stops.
C34_RejectionReplansUnlessMarked ==
    [][GuardRejects
       => /\ ToolUntouchedOneRecord
          /\ node' = IF HasFailureMarker(messages) THEN "END" ELSE "agent"]_vars

\* A rejected repetition after which the run is back at the planner, the
\* tool having been invoked five times
C34_Witness ==
    /\ node = "agent"
    /\ last_record.status = "repeated_action"
    /\ validation_count = 5
    /\ execution_records[Len(execution_records)] = last_record

\* A rejected oscillation that stopped the run because of a failure marker
C34_StoppedWitness ==
    /\ node = "END"
    /\ last_record.status = "oscillation"
    /\ HasFailureMarker(messages)


(***************************************************************************)
(* The store's paired read against its update, statement by statement: the *)
(* executor thread runs update_scene_graph, the control thread runs        *)
(* get_current_raw_msg inside execute; neither takes a lock.  A raw        *)
(* message is represented by the snapshot it parses to.                    *)
(***************************************************************************)
beyond_pair == <<vvars, hist_vars, orch_vars, ros_available, guard_vars,
                 validation_count, consecutive_failures, exec_vars, log_vars,
                 store_ext, refresh_vars, plan_vars, signal_vars, run_vars,
                 input_vars, queue_vars>>

InitQ ==
    /\ ValidatorIdle
    /\ ros_available = TRUE
    /\ ProtocolInit

\* update_scene_graph: self.raw_msg = raw_msg
StoreRawMsg(parsed_data) ==
    /\ listener_pc = "idle"
    /\ raw_msg' = parsed_data
    /\ listener_parsed' = parsed_data
    /\ listener_pc' = "store_parsed"
    /\ UNCHANGED <<current_scene_graph, init_scene_graph_data, init_raw_data, reader_pc,
                   loaded_raw, scene_graph_init, validated_snapshot, beyond_pair>>

\* update_scene_graph: self.current_scene_graph = parsed_data
StoreParsed ==
    /\ listener_pc = "store_parsed"
    /\ current_scene_graph' = listener_parsed
    /\ listener_pc' = "idle"
    /\ UNCHANGED <<raw_msg, listener_parsed, init_scene_graph_data, init_raw_data,
                   reader_pc, loaded_raw, scene_graph_init, validated_snapshot,
                   beyond_pair>>

\* get_current_raw_msg: the load of self.raw_msg
LoadRawMsg ==
    /\ reader_pc = "idle"
    /\ loaded_raw' = raw_msg
    /\ reader_pc' = "load_parsed"
    /\ UNCHANGED <<store_vars, init_scene_graph_data, init_raw_data, listener_pc,
                   listener_parsed, scene_graph_init, validated_snapshot, beyond_pair>>

\* get_current_raw_msg: self.current_scene_graph.copy(), and execute's
\* assignment of the pair
LoadParsedCopy ==
    /\ reader_pc = "load_parsed"
    /\ init_raw_data' = loaded_raw
    /\ init_scene_graph_data' = current_scene_graph
    /\ reader_pc' = "validate"
    /\ UNCHANGED <<store_vars, listener_pc, listener_parsed, loaded_raw,
                   scene_graph_init, validated_snapshot, beyond_pair>>

\* execute: the command is validated against the parsed snapshot; when it
\* passes, _execute_action publishes it and _publish_init_raw_msg publishes
\* the raw message held with that snapshot
ValidateAndPublishInit ==
    /\ reader_pc = "validate"
    /\ reader_pc' = "idle"
    /\ IF IsValidResult(ValidateActionCommand(SignalledCommand, init_scene_graph_data))
       THEN /\ validated_snapshot' = init_scene_graph_data
            /\ scene_graph_init' = init_raw_data
       ELSE UNCHANGED <<validated_snapshot, scene_graph_init>>
    /\ UNCHANGED <<store_vars, init_scene_graph_data, init_raw_data, listener_pc,
                   listener_parsed, loaded_raw, beyond_pair>>

NextQ ==
    \/ \E parsed_data \in BusScenes : StoreRawMsg(parsed_data)
    \/ StoreParsed
    \/ LoadRawMsg
    \/ LoadParsedCopy
    \/ ValidateAndPublishInit

SpecQ == InitQ /\ [][NextQ]_vars

\* C35 as stated: the raw message and the parsed scene graph returned
\* together by get_current_raw_msg stem from the same update for every
\* interleaving of update_scene_graph with the read, hence the initial
\* scene published for an execution attempt is the raw form of the snapshot
\* the command was validated against.
C35_PairFromSameUpdate ==
    /\ init_raw_data = init_scene_graph_data
    /\ scene_graph_init = validated_snapshot

\* The published initial scene differs from the snapshot the command was
\* validated against
C35_MismatchPublished ==
    /\ reader_pc = "idle"
    /\ scene_graph_init # validated_snapshot
    /\ validated_snapshot # NoSG


(***************************************************************************)
(* process_user_input: the resets, the retry loop around agent.invoke, and *)
(* the report and completion notice of every return path.  The graph run   *)
(* of an attempt is an oracle that ends in one of five ways.               *)
(***************************************************************************)
\* RETRY_CONFIG["max_retries"]
MaxRetries == 10

MaxInputs == 2

\* How an attempt ends: agent_call returned, future.result timed out, or
\* agent_call raised an error classified as rate limit, server error or other
AttemptOutcomes == {"answer", "timeout", "rate_limit", "server_error", "other_error"}

\* The outcomes RETRY_CONFIG lets the loop retry
RetriedOutcomes == {"timeout", "rate_limit", "server_error"}

\* Variant of the publisher that ignores whether the bus was initialized
DeliveredRegardless(available, publish_ok) == publish_ok

\* ROS2Manager.publish_task_completion returns True, having published
Delivered(available, publish_ok) == available /\ publish_ok

beyond_input == <<vvars, hist_vars, orch_vars, store_vars, init_scene_graph_data,
                  init_raw_data, exec_vars, tasks, store_ext, refresh_vars, plan_vars,
                  signal_vars, run_vars, pair_vars, queue_vars>>

\* AgentRunner.start has run initialize: the agent is ready, with or without
\* the bus
InitU ==
    /\ ValidatorIdle
    /\ ros_available \in BOOLEAN
    /\ ProtocolInit

\* process_user_input up to the loop: reset_validation_count and
\* _reset_execution_records
EnterProcessUserInput ==
    /\ input_pc = "idle"
    /\ inputs_done < MaxInputs
    /\ validation_count' = 0
    /\ consecutive_failures' = 0
    /\ same_tool_count' = 0
    /\ last_call_message' = NoCall
    /\ last_last_call_message' = NoCall
    /\ execution_records' = ResetExecutionRecords(execution_records)
    /\ attempt_no' = 0
    /\ notices' = 0
    /\ publish_calls' = 0
    /\ invoke_count' = 0
    /\ response_kind' = "none"
    /\ input_pc' = "loop"
    /\ UNCHANGED <<ros_available, inputs_done, beyond_input>>

\* for attempt in range(max_retries + 1), and the statements after the loop
LoopHead ==
    /\ input_pc = "loop"
    /\ IF attempt_no <= MaxRetries
       THEN /\ input_pc' = "invoke"
            /\ UNCHANGED response_kind
       ELSE /\ input_pc' = "report"
            /\ response_kind' = "exhausted"
    /\ UNCHANGED <<ros_available, guard_vars, validation_count, consecutive_failures,
                   execution_records, attempt_no, notices, publish_calls, inputs_done,
                   invoke_count, beyond_input>>

\* One attempt: agent.invoke in the worker, then the except clauses
AttemptInvoke(outcome) ==
    /\ input_pc = "invoke"
    /\ invoke_count' = invoke_count + 1
    /\ IF outcome \in RetriedOutcomes /\ attempt_no < MaxRetries
       THEN /\ attempt_no' = attempt_no + 1
            /\ input_pc' = "loop"
            /\ UNCHANGED response_kind
       ELSE /\ input_pc' = "report"
            /\ response_kind' = outcome
            /\ UNCHANGED attempt_no
    /\ UNCHANGED <<ros_available, guard_vars, validation_count, consecutive_failures,
                   execution_records, notices, publish_calls, inputs_done, beyond_input>>

\* _save_task_execution_report, _publish_task_completion and the return
ReportAndPublish(publish_ok) ==
    /\ input_pc = "report"
    /\ last_call_message' = NoCall
    /\ same_tool_count' = 0
    /\ publish_calls' = publish_calls + 1
    /\ notices' = IF Delivered(ros_available, publish_ok) THEN notices + 1 ELSE notices
    /\ inputs_done' = inputs_done + 1
    /\ input_pc' = "idle"
    /\ UNCHANGED <<ros_available, last_last_call_message, validation_count,
                   consecutive_failures, execution_records, attempt_no, response_kind,
                   invoke_count, beyond_input>>

NextU ==
    \/ EnterProcessUserInput
    \/ LoopHead
    \/ \E outcome \in AttemptOutcomes : AttemptInvoke(outcome)
    \/ \E publish_ok \in BOOLEAN : ReportAndPublish(publish_ok)

SpecU == InitU /\ [][NextU]_vars

\* process_user_input returns
InputReturns == input_pc = "report" /\ input_pc' = "idle"

\* C38 as stated: every call of process_user_input on an initialized agent
\* publishes exactly one task-completion notice before it returns, on every
\* return path, and invokes the orchestration graph at most max_retries + 1
\* times.
C38_ExactlyOneNotice ==
    [][InputReturns => (notices' = 1 /\ invoke_count' <= MaxRetries + 1)]_vars

\* C38 amended: every call of process_user_input on an initialized agent
\* calls the completion publisher exactly once, just before it returns, on
\* every return path, and invokes the orchestration graph at least once and
\* at most max_retries + 1 times; the call puts one notice on the topic when
\* the bus manager is initialized and the publication does not fail, and
\* none otherwise.
C38_OnePublishCallAtMostOneNotice ==
    [][/\ InputReturns
          => /\ publish_calls' = 1
             /\ notices = 0
             /\ notices' <= 1
             /\ notices' = 1 => ros_available
             /\ invoke_count' >= 1
             /\ invoke_count' <= MaxRetries + 1
       /\ ~InputReturns => (notices' = notices \/ notices' = 0)]_vars

\* A call that returned the final timeout answer after every attempt timed
\* out, having published its one notice
C38_Witness ==
    /\ input_pc = "idle"
    /\ inputs_done >= 1
    /\ response_kind = "timeout"
    /\ invoke_count = MaxRetries + 1
    /\ notices = 1
    /\ publish_calls = 1

\* A call that returned on an agent initialized without the bus
C38_NoBusWitness ==
    /\ input_pc = "idle"
    /\ inputs_done >= 1
    /\ ~ros_available
    /\ notices = 0
    /\ publish_calls = 1


(***************************************************************************)
(* The task topic: the listener's callback fills the agent's queue, the    *)
(* main loop takes one task per iteration and processes it before it reads *)
(* the terminal.  A task is identified by the number of its message.       *)
(***************************************************************************)
MaxArrivals == 4

\* What a message on the task topic holds: "task: ..." text, a line that
\* begins with the configuration prefix, or anything else
TaskPayloads == {"task", "cfg", "other"}

\* What the input thread has queued for this iteration
TerminalInputs == {"none", "status", "text", "quit"}

\* _task_cmd_callback hands the message on
CarriesTask(payload) == payload \in {"task", "cfg"}

\* Variant of the queue's get that leaves the task in the queue
KeepHead(queue) == queue

\* Queue.get_nowait: what is left in the queue
RemoveHead(queue) == Tail(queue)

beyond_queue == <<vvars, hist_vars, orch_vars, ros_available, store_vars, guard_vars,
                  tool_vars, exec_vars, log_vars, store_ext, refresh_vars, plan_vars,
                  signal_vars, run_vars, pair_vars, input_vars>>

InitM ==
    /\ ValidatorIdle
    /\ ros_available = TRUE
    /\ ProtocolInit

\* _task_cmd_callback and _on_task_received on the executor thread
TaskCmdCallback(payload) ==
    /\ loop_pc # "stopped"
    /\ msgs_delivered < MaxArrivals
    /\ msgs_delivered' = msgs_delivered + 1
    /\ IF CarriesTask(payload)
       THEN /\ task_queue' = Append(task_queue, msgs_delivered')
            /\ arrived' = Append(arrived, msgs_delivered')
       ELSE UNCHANGED <<task_queue, arrived>>
    /\ UNCHANGED <<processed, loop_pc, current_task, taken_in_iteration, beyond_queue>>

\* _main_loop: agent.spin_once at the top of an iteration
SpinOnce ==
    /\ loop_pc = "spin"
    /\ loop_pc' = "ros_tasks"
    /\ taken_in_iteration' = 0
    /\ UNCHANGED <<task_queue, arrived, processed, current_task, msgs_delivered,
                   beyond_queue>>

\* _handle_ros_tasks: has_pending_tasks, get_pending_task
TakePendingTask ==
    /\ loop_pc = "ros_tasks"
    /\ IF task_queue # <<>>
       THEN /\ current_task' = Head(task_queue)
            /\ task_queue' = RemoveHead(task_queue)
            /\ taken_in_iteration' = taken_in_iteration + 1
            /\ loop_pc' = "processing"
       ELSE /\ loop_pc' = "input"
            /\ UNCHANGED <<current_task, task_queue, taken_in_iteration>>
    /\ UNCHANGED <<arrived, processed, msgs_delivered, beyond_queue>>

\* _handle_ros_tasks: process_user_input on the task returns
ProcessTaken ==
    /\ loop_pc = "processing"
    /\ processed' = Append(processed, current_task)
    /\ current_task' = 0
    /\ loop_pc' = "input"
    /\ UNCHANGED <<task_queue, arrived, taken_in_iteration, msgs_delivered, beyond_queue>>

\* _main_loop: input_queue.get_nowait and _handle_user_input up to the call
\* of process_user_input
ReadTerminal(user_input) ==
    /\ loop_pc = "input"
    /\ loop_pc' = CASE user_input = "quit" -> "stopped"
                    [] user_input = "text" -> "terminal_task"
                    [] OTHER -> "spin"
    /\ UNCHANGED <<task_queue, arrived, processed, current_task, taken_in_iteration,
                   msgs_delivered, beyond_queue>>

\* _handle_user_input: process_user_input on the typed text returns
ProcessTyped ==
    /\ loop_pc = "terminal_task"
    /\ loop_pc' = "spin"
    /\ UNCHANGED <<task_queue, arrived, processed, current_task, taken_in_iteration,
                   msgs_delivered, beyond_queue>>

MainLoop ==
    \/ SpinOnce
    \/ TakePendingTask
    \/ ProcessTaken
    \/ \E user_input \in TerminalInputs : ReadTerminal(user_input)
    \/ ProcessTyped

NextM ==
    \/ \E payload \in TaskPayloads : TaskCmdCallback(payload)
    \/ MainLoop

\* The main thread keeps running; what the operator types is not forced
SpecM == InitM /\ [][NextM]_vars /\ WF_vars(MainLoop)

\* The task being processed, if any
InProgress == IF current_task = 0 THEN <<>> ELSE <<current_task>>

\* The loop is processing a task, from the topic or typed
Busy == loop_pc \in {"processing", "terminal_task"}

\* C39: the tasks received on the task topic are processed in arrival
\* order, each exactly once: at every moment the tasks received are, in
\* order, those processed, the one in progress and those still queued, no
\* task among them twice; the loop takes at most one task per iteration and
\* takes none while a task is being processed; and as long as the main loop
\* is not stopped every task received is processed.
C39_ProcessedInArrivalOrderOnce ==
    /\ [](arrived = processed \o InProgress \o task_queue)
    /\ [](\A i, j \in 1..Len(arrived) : arrived[i] = arrived[j] => i = j)
    /\ [](taken_in_iteration <= 1)
    /\ [][current_task' # current_task /\ current_task' # 0
            => (~Busy /\ current_task = 0)]_vars
    /\ \A n \in 1..MaxArrivals :
          (Len(arrived) >= n) ~> (Len(processed) >= n \/ loop_pc = "stopped")

\* Tasks arrived while an earlier one was being processed, and all were
\* processed in their order of arrival, a message that carries no task
\* having been dropped in between
C39_Witness ==
    /\ Len(processed) = 3
    /\ processed = arrived
    /\ msgs_delivered = MaxArrivals
    /\ processed[3] = MaxArrivals
    /\ loop_pc = "input"

====
